---- MODULE Spec2Model ----
(***************************************************************************)
(* Telemetry state pipeline of the Alfa Eta dashboard.                     *)
(*                                                                         *)
(*  - libs/Src/dashboard_controls.c : the Nextion display sync engine      *)
(*    (NEX_Bind, NEX_Init, NEX_Handshake, NEX_Refresh and the send helpers) *)
(*  - libs/Src/geo_to_pixel.c       : the GPS pipeline (Run_GeoPipeline)    *)
(*  - libs/Src/mapping.c            : Map_Int / Map_Float                   *)
(*                                                                         *)
(* Coordinates are fixed point: one unit is 1e-6 degree.  A C string is a  *)
(* TLA+ string; the GPS receive buffer is a sequence of one-character      *)
(* strings with "" standing for the NUL byte.                              *)
(***************************************************************************)
EXTENDS Integers, Sequences, FiniteSets, TLC

(***************************************************************************)
(* Bounds of the model.                                                    *)
(***************************************************************************)
MaxWrites == 2      \* changes of the live values (application writes, pipeline ticks)
MaxCalls  == 3      \* calls of the display API (bind, init, handshake, refresh)
MaxLaps   == 2      \* the pipeline is not run any more once Lap has this value

(***************************************************************************)
(* Types and constants of dashboard_controls.                              *)
(***************************************************************************)
NULL == "NULL"

HAL_OK    == "HAL_OK"
HAL_ERROR == "HAL_ERROR"

\* the int* members of NEX_Data, in declaration order
AppFields == {"speed", "batteryValue", "powerKW", "packVoltage", "maxVoltage",
              "minVoltage", "batteryTemp", "gear", "handbrake", "signalLeft",
              "signalRight", "connWarn", "battWarn", "lights"}

\* the members of MapOffset
MapFields == {"PixelX", "PixelY", "IconAngle", "Lap"}

\* every value NEX_CachedData shadows
Fields == AppFields \cup MapFields

\* the order in which NEX_Refresh examines the fields
RefreshOrder == <<"speed", "batteryValue", "powerKW", "packVoltage", "maxVoltage",
                  "minVoltage", "batteryTemp", "PixelX", "PixelY", "IconAngle",
                  "Lap", "gear", "handbrake", "signalLeft", "signalRight",
                  "connWarn", "battWarn", "lights">>

\* a command table whose gear entries are in the order Neutral, Drive, Reverse
NEX_Command_NeutralFirst ==
  [ CONNECTION_OK              |-> "con=1",
    SET_GEAR_DRIVE             |-> "pGr.pic=14",
    SET_GEAR_NEUTRAL           |-> "pGr.pic=13",
    SET_GEAR_REVERSE           |-> "pGr.pic=15",
    SET_HANDBREAK_ON           |-> "pHb.aph=127",
    SET_HANDBREAK_OFF          |-> "pHb.aph=0",
    SET_SIGNAL_LEFT_ON         |-> "pSL.aph=127",
    SET_SIGNAL_LEFT_OFF        |-> "pSL.aph=0",
    SET_SIGNAL_RIGHT_ON        |-> "pSR.aph=127",
    SET_SIGNAL_RIGHT_OFF       |-> "pSR.aph=0",
    SET_CONNECTION_WARNING_ON  |-> "pCW.aph=127",
    SET_CONNECTION_WARNING_OFF |-> "pCW.aph=0",
    SET_BATTERY_WARNING_ON     |-> "pBW.aph=127",
    SET_BATTERY_WARNING_OFF    |-> "pBW.aph=0",
    SET_LIGHTS_ON              |-> "pLt.aph=127",
    SET_LIGHTS_OFF             |-> "pLt.aph=0" ]

\* static const char *NEX_Command[], indexed by NEX_CommandID
NEX_Command ==
  [ CONNECTION_OK              |-> "con=1",
    SET_GEAR_DRIVE             |-> "pGr.pic=13",
    SET_GEAR_NEUTRAL           |-> "pGr.pic=14",
    SET_GEAR_REVERSE           |-> "pGr.pic=15",
    SET_HANDBREAK_ON           |-> "pHb.aph=127",
    SET_HANDBREAK_OFF          |-> "pHb.aph=0",
    SET_SIGNAL_LEFT_ON         |-> "pSL.aph=127",
    SET_SIGNAL_LEFT_OFF        |-> "pSL.aph=0",
    SET_SIGNAL_RIGHT_ON        |-> "pSR.aph=127",
    SET_SIGNAL_RIGHT_OFF       |-> "pSR.aph=0",
    SET_CONNECTION_WARNING_ON  |-> "pCW.aph=127",
    SET_CONNECTION_WARNING_OFF |-> "pCW.aph=0",
    SET_BATTERY_WARNING_ON     |-> "pBW.aph=127",
    SET_BATTERY_WARNING_OFF    |-> "pBW.aph=0",
    SET_LIGHTS_ON              |-> "pLt.aph=127",
    SET_LIGHTS_OFF             |-> "pLt.aph=0" ]

\* static const char *NEX_Int_Command[], indexed by NEX_Int_Command_ID; the
\* entry is the text before the single %d placeholder that ends each template
NEX_Int_Command ==
  [ SET_SPEED_COMMAND                |-> "nSd.val=",
    SET_BATTERY_NUMBER_COMMAND       |-> "nBt.val=",
    SET_BATTERY_PROGRESS_BAR_COMMAND |-> "jBt.val=",
    SET_KW_NUMBER_COMMAND            |-> "nKW.val=",
    SET_KW_PROGRESS_BAR_COMMAND      |-> "jKW.val=",
    SET_PACK_VOLTAGE                 |-> "xBV.val=",
    SET_MAX_VOLTAGE                  |-> "xBMa.val=",
    SET_MIN_VOLTAGE                  |-> "xBMi.val=",
    SET_BATTERY_TEMPERATURE          |-> "xBtT.val=",
    SET_MAP_X                        |-> "pMap.x=",
    SET_MAP_Y                        |-> "pMap.y=",
    SET_MAP_ICON                     |-> "zIc.val=",
    SET_MAP_LAP                      |-> "nLap.val=" ]

PROGRESS_BAR_REVERSE    == 1
PROGRESS_BAR_NO_REVERSE == 2

\* static const uint8_t COMMAND_END[3]
COMMAND_END == <<255, 255, 255>>

\* configuration macros of the display module (their header is not part of
\* the sources; values as the design document gives them)
NEX_HANDSHAKE_ATTEMPTS           == 10
NEX_BATTERY_PROGRESS_BAR_MIN_VAL == 0
NEX_BATTERY_PROGRESS_BAR_MAX_VAL == 100
NEX_KW_PROGRESS_BAR_MIN_VAL      == 0
NEX_KW_PROGRESS_BAR_MAX_VAL      == 6

(***************************************************************************)
(* mapping.c                                                               *)
(***************************************************************************)
\* C integer division: the quotient is truncated toward zero
CDiv(a, b) ==
  IF (a >= 0 /\ b > 0) \/ (a <= 0 /\ b < 0)
  THEN a \div b
  ELSE -((-a) \div b)

\* a Map_Int that scales the input without moving it to the origin first
Map_Int_Unshifted(input, in_min, in_max, out_min, out_max) ==
  LET input_range  == in_max - in_min
      output_range == out_max - out_min
  IN  CDiv(input * output_range, input_range) + out_min

Map_Int(input, in_min, in_max, out_min, out_max) ==
  LET input_range  == in_max - in_min
      output_range == out_max - out_min
  IN  CDiv((input - in_min) * output_range, input_range) + out_min

(***************************************************************************)
(* The display channel.  One element of a transmit log is one call of      *)
(* HAL_UART_Transmit on the display UART: a command text (kind "cmd") or   *)
(* the three COMMAND_END bytes (kind "end").  The tag of a command records *)
(* for which dashboard field and live value it was produced (bar: it is    *)
(* the progress-bar companion of the field's number command); it is not    *)
(* part of the bytes on the wire.                                          *)
(***************************************************************************)
NoTag == [field |-> "none", val |-> 0, bar |-> FALSE]

Tag(f, v) == [field |-> f, val |-> v, bar |-> FALSE]

BarTag(f, v) == [field |-> f, val |-> v, bar |-> TRUE]

TxCmd(str, tag) == [kind |-> "cmd", text |-> str, bytes |-> <<>>, tag |-> tag]

TxEnd == [kind |-> "end", text |-> "", bytes |-> COMMAND_END, tag |-> NoTag]

\* Command_Terminator: HAL_UART_Transmit(_uart, COMMAND_END, sizeof(COMMAND_END), 100)
Command_Terminator(log) == Append(log, TxEnd)

\* a Send_String_To_Nextion that forgets the terminator
Send_String_Unterminated(log, str, tag) == Append(log, TxCmd(str, tag))

\* Send_String_To_Nextion: transmit the text, then the terminator
Send_String_To_Nextion(log, str, tag) ==
  Command_Terminator(Append(log, TxCmd(str, tag)))

\* Send_Nextion_Command: NEX_Command[cmdID] is sent as it is
Send_Nextion_Command(log, cmdID, tag) ==
  Send_String_To_Nextion(log, NEX_Command[cmdID], tag)

\* sprintf(command, "<prefix>%d", val)
Sprintf(prefix, val) == prefix \o ToString(val)

\* Send_Nextion_Int: format the value into the template and send it
Send_Nextion_Int(log, cmdID, val, tag) ==
  Send_String_To_Nextion(log, Sprintf(NEX_Int_Command[cmdID], val), tag)

\* (uint8_t) conversion of an int
Uint8(v) == v % 256

\* a Send_Nextion_Progress_Bar that never inverts the bar
Send_Nextion_Progress_Bar_Plain(log, cmdID, val, maxVal, minVal, reverseProgressBar, f) ==
  IF minVal <= val /\ val <= maxVal
  THEN LET mapVal == Map_Int(val, minVal, maxVal, 0, 100)
       IN  [sent |-> Send_Nextion_Int(log, cmdID, Uint8(mapVal), BarTag(f, val)),
            ret  |-> HAL_OK]
  ELSE [sent |-> log, ret |-> HAL_ERROR]

\* Send_Nextion_Progress_Bar: range check, rescale to 0..100, optional
\* inversion, send; HAL_ERROR and nothing sent when val is out of range
Send_Nextion_Progress_Bar(log, cmdID, val, maxVal, minVal, reverseProgressBar, f) ==
  IF minVal <= val /\ val <= maxVal
  THEN LET mapVal == IF reverseProgressBar = PROGRESS_BAR_REVERSE
                     THEN 100 - Map_Int(val, minVal, maxVal, 0, 100)
                     ELSE Map_Int(val, minVal, maxVal, 0, 100)
       IN  [sent |-> Send_Nextion_Int(log, cmdID, Uint8(mapVal), BarTag(f, val)),
            ret  |-> HAL_OK]
  ELSE [sent |-> log, ret |-> HAL_ERROR]

(***************************************************************************)
(* NEX_Refresh, field by field.  st = [prev, sent, ret]: the cache         *)
(* _previousValues, the transmissions made so far in this call and the     *)
(* status the call returns; lv is the record of live values.               *)
(***************************************************************************)
\* a plain numeric field: compare, Send_Nextion_Int, update the cache
RefreshInt(st, lv, f, cmdID) ==
  IF lv[f] # st.prev[f]
  THEN [st EXCEPT !.sent = Send_Nextion_Int(@, cmdID, lv[f], Tag(f, lv[f])),
                  !.prev[f] = lv[f]]
  ELSE st

\* a RefreshBar that records the value in the cache before the range check
RefreshBar_CacheFirst(st, lv, f, numID, barID, maxVal, minVal, reverseProgressBar) ==
  IF lv[f] # st.prev[f]
  THEN LET s1 == Send_Nextion_Int(st.sent, numID, lv[f], Tag(f, lv[f]))
           pb == Send_Nextion_Progress_Bar(s1, barID, lv[f], maxVal, minVal,
                                           reverseProgressBar, f)
       IN  IF pb.ret = HAL_ERROR
           THEN [st EXCEPT !.sent = pb.sent, !.prev[f] = lv[f], !.ret = HAL_ERROR]
           ELSE [st EXCEPT !.sent = pb.sent, !.prev[f] = lv[f]]
  ELSE st

\* a number with a progress bar (batteryValue, powerKW): the number command
\* is sent first; a failing bar ends the call before the cache is updated
RefreshBar(st, lv, f, numID, barID, maxVal, minVal, reverseProgressBar) ==
  IF lv[f] # st.prev[f]
  THEN LET s1 == Send_Nextion_Int(st.sent, numID, lv[f], Tag(f, lv[f]))
           pb == Send_Nextion_Progress_Bar(s1, barID, lv[f], maxVal, minVal,
                                           reverseProgressBar, f)
       IN  IF pb.ret = HAL_ERROR
           THEN [st EXCEPT !.sent = pb.sent, !.ret = HAL_ERROR]
           ELSE [st EXCEPT !.sent = pb.sent, !.prev[f] = lv[f]]
  ELSE st

\* a gear block that updates the cache only when it has sent a command
RefreshGear_CacheOnCommand(st, lv) ==
  IF lv["gear"] # st.prev["gear"]
  THEN LET g == lv["gear"]
       IN  CASE g = 0 -> [st EXCEPT !.sent = Send_Nextion_Command(@, "SET_GEAR_NEUTRAL",
                                                                  Tag("gear", g)),
                                    !.prev["gear"] = g]
             [] g = 1 -> [st EXCEPT !.sent = Send_Nextion_Command(@, "SET_GEAR_DRIVE",
                                                                  Tag("gear", g)),
                                    !.prev["gear"] = g]
             [] g = 2 -> [st EXCEPT !.sent = Send_Nextion_Command(@, "SET_GEAR_REVERSE",
                                                                  Tag("gear", g)),
                                    !.prev["gear"] = g]
             [] OTHER -> st
  ELSE st

\* gear: switch over 0, 1, 2 without a default case
RefreshGear(st, lv) ==
  IF lv["gear"] # st.prev["gear"]
  THEN LET g == lv["gear"]
           s1 == CASE g = 0 -> Send_Nextion_Command(st.sent, "SET_GEAR_NEUTRAL", Tag("gear", g))
                   [] g = 1 -> Send_Nextion_Command(st.sent, "SET_GEAR_DRIVE", Tag("gear", g))
                   [] g = 2 -> Send_Nextion_Command(st.sent, "SET_GEAR_REVERSE", Tag("gear", g))
                   [] OTHER -> st.sent
       IN  [st EXCEPT !.sent = s1, !.prev["gear"] = g]
  ELSE st

\* an on/off field: value ? ON command : OFF command
RefreshToggle(st, lv, f, onID, offID) ==
  IF lv[f] # st.prev[f]
  THEN [st EXCEPT !.sent = Send_Nextion_Command(@, IF lv[f] # 0 THEN onID ELSE offID,
                                                Tag(f, lv[f])),
                  !.prev[f] = lv[f]]
  ELSE st

\* the fields after powerKW, none of which can fail
RefreshTail(st, lv) ==
  LET s4  == RefreshInt(st,  lv, "packVoltage", "SET_PACK_VOLTAGE")
      s5  == RefreshInt(s4,  lv, "maxVoltage",  "SET_MAX_VOLTAGE")
      s6  == RefreshInt(s5,  lv, "minVoltage",  "SET_MIN_VOLTAGE")
      s7  == RefreshInt(s6,  lv, "batteryTemp", "SET_BATTERY_TEMPERATURE")
      s8  == RefreshInt(s7,  lv, "PixelX",      "SET_MAP_X")
      s9  == RefreshInt(s8,  lv, "PixelY",      "SET_MAP_Y")
      s10 == RefreshInt(s9,  lv, "IconAngle",   "SET_MAP_ICON")
      s11 == RefreshInt(s10, lv, "Lap",         "SET_MAP_LAP")
      s12 == RefreshGear(s11, lv)
      s13 == RefreshToggle(s12, lv, "handbrake",   "SET_HANDBREAK_ON", "SET_HANDBREAK_OFF")
      s14 == RefreshToggle(s13, lv, "signalLeft",  "SET_SIGNAL_LEFT_ON", "SET_SIGNAL_LEFT_OFF")
      s15 == RefreshToggle(s14, lv, "signalRight", "SET_SIGNAL_RIGHT_ON", "SET_SIGNAL_RIGHT_OFF")
      s16 == RefreshToggle(s15, lv, "connWarn",    "SET_CONNECTION_WARNING_ON",
                                                   "SET_CONNECTION_WARNING_OFF")
      s17 == RefreshToggle(s16, lv, "battWarn",    "SET_BATTERY_WARNING_ON",
                                                   "SET_BATTERY_WARNING_OFF")
  IN  RefreshToggle(s17, lv, "lights", "SET_LIGHTS_ON", "SET_LIGHTS_OFF")

\* the battery block of NEX_Refresh
RefreshBattery(st, lv) ==
  RefreshBar(st, lv, "batteryValue", "SET_BATTERY_NUMBER_COMMAND",
             "SET_BATTERY_PROGRESS_BAR_COMMAND", NEX_BATTERY_PROGRESS_BAR_MAX_VAL,
             NEX_BATTERY_PROGRESS_BAR_MIN_VAL, PROGRESS_BAR_NO_REVERSE)

\* the power block of NEX_Refresh
RefreshPower(st, lv) ==
  RefreshBar(st, lv, "powerKW", "SET_KW_NUMBER_COMMAND",
             "SET_KW_PROGRESS_BAR_COMMAND", NEX_KW_PROGRESS_BAR_MAX_VAL,
             NEX_KW_PROGRESS_BAR_MIN_VAL, PROGRESS_BAR_REVERSE)

\* a NEX_Refresh that goes on with the later fields after a failed range
\* check and reports the error at the end
RefreshBody_KeepGoing(prev, lv) ==
  LET s0 == [prev |-> prev, sent |-> <<>>, ret |-> HAL_OK]
      s1 == RefreshInt(s0, lv, "speed", "SET_SPEED_COMMAND")
      s2 == RefreshBattery(s1, lv)
      s3 == RefreshPower([s2 EXCEPT !.ret = HAL_OK], lv)
      s4 == RefreshTail([s3 EXCEPT !.ret = HAL_OK], lv)
  IN  [s4 EXCEPT !.ret = IF HAL_ERROR \in {s2.ret, s3.ret} THEN HAL_ERROR ELSE HAL_OK]

\* the whole body of NEX_Refresh: result [prev, sent, ret] of one call that
\* starts with cache prev and reads the live values lv
RefreshBody(prev, lv) ==
  LET s0 == [prev |-> prev, sent |-> <<>>, ret |-> HAL_OK]
      s1 == RefreshInt(s0, lv, "speed", "SET_SPEED_COMMAND")
      s2 == RefreshBattery(s1, lv)
  IN  IF s2.ret = HAL_ERROR THEN s2
      ELSE LET s3 == RefreshPower(s2, lv)
           IN  IF s3.ret = HAL_ERROR THEN s3 ELSE RefreshTail(s3, lv)

(***************************************************************************)
(* geo_to_pixel.h: configuration.  Angles in micro-degrees.                *)
(***************************************************************************)
MAP_X_SIZE == 800
MAP_Y_SIZE == 750

ICON_WIDTH  == 67
ICON_HEIGHT == 67
ICON_X == 640
ICON_Y == 201

MAP_X_MIN_VAL == 0
MAP_X_MAX_VAL == 450
MAP_Y_MIN_VAL == -270
MAP_Y_MAX_VAL == 0

NW_lat == 40809190
NW_lon == 29353691
SE_lat == 40804011
SE_lon == 29361033

GPS_BUFFER_SIZE == 100

\* number of entries of Checkpoints[]
NUM_CHECKPOINTS == 3

\* thresholds of GPS_Filter (3.0f m) and Count_Lap (5.0f m), in centimetres
FILTER_MIN_DIST == 300
CHECKPOINT_DIST == 500

(***************************************************************************)
(* C strings.  A buffer is a sequence of one-character strings; NUL is the *)
(* empty string.  Positions are 1-based: C index k is position k + 1.      *)
(***************************************************************************)
NUL == ""

Digits == {"0", "1", "2", "3", "4", "5", "6", "7", "8", "9"}

DigitVal(c) ==
  CASE c = "0" -> 0 [] c = "1" -> 1 [] c = "2" -> 2 [] c = "3" -> 3 [] c = "4" -> 4
    [] c = "5" -> 5 [] c = "6" -> 6 [] c = "7" -> 7 [] c = "8" -> 8 [] c = "9" -> 9

\* the char at position p; memory behind the array reads as NUL
At(buf, p) == IF p \in 1..Len(buf) THEN buf[p] ELSE NUL

\* a buffer written out element by element
Stored(buf) == SubSeq(buf, 1, Len(buf))

\* the smallest element of a non-empty set of positions
MinOf(S) == CHOOSE p \in S : \A q \in S : p <= q

\* position of the NUL that ends the string starting at position p
StrEnd(buf, p) == MinOf({q \in p..(Len(buf) + 1) : At(buf, q) = NUL} \cup {Len(buf) + 1})

\* strlen of the string that starts at position p
StrLen(buf, p) == IF p > Len(buf) THEN 0 ELSE StrEnd(buf, p) - p

\* strstr(buf + p - 1, pat): position of the first occurrence of pat in the
\* string that starts at p, 0 when there is none (NULL)
StrStr(buf, p, pat) ==
  LET e    == StrEnd(buf, p)
      hits == {q \in p..(e - Len(pat)) : \A k \in 1..Len(pat) : buf[q + k - 1] = pat[k]}
  IN  IF hits = {} THEN 0 ELSE MinOf(hits)

\* strchr(buf + p - 1, c) - (buf + p - 1): offset of c in the string at p,
\* -1 when c does not occur (strchr returns NULL)
StrChr(buf, p, c) ==
  LET hits == {q \in p..(StrEnd(buf, p) - 1) : buf[q] = c}
  IN  IF hits = {} THEN -1 ELSE MinOf(hits) - p

\* strncpy(dst, buf + p - 1, n): n chars, NUL padded after the end of the source
StrNCpy(buf, p, n) ==
  LET l == StrLen(buf, p)
  IN  Stored([k \in 1..n |-> IF k <= l THEN buf[p + k - 1] ELSE NUL])

\* the tokens strtok(buf, ",") ... strtok(NULL, ",") returns: the start
\* positions, in order, of the maximal comma-free runs of the string at position 1
StrTokStarts(buf) ==
  LET l      == StrLen(buf, 1)
      starts == {q \in 1..l : buf[q] # "," /\ (q = 1 \/ buf[q - 1] = ",")}
  IN  Stored([k \in 1..Cardinality(starts) |->
                CHOOSE q \in starts : Cardinality({r \in starts : r < q}) = k - 1])

\* the buffer as strtok leaves it: the comma that ends a token is overwritten by NUL
StrTokBuffer(buf) ==
  LET l == StrLen(buf, 1)
  IN  Stored([k \in 1..Len(buf) |->
                IF k <= l /\ buf[k] = "," /\ k > 1 /\ buf[k - 1] # "," THEN NUL ELSE buf[k]])

\* whitespace isspace() accepts, as far as it occurs in NMEA text
Spaces == {" ", "\t", "\n", "\r"}

SkipSpaces(buf, p) == MinOf({q \in p..(Len(buf) + 1) : At(buf, q) \notin Spaces})

\* value and end position of the run of digits at p (saturating at MaxParse)
MaxParse == 1000

RECURSIVE DigitRun(_, _, _)
DigitRun(buf, p, acc) ==
  IF At(buf, p) \in Digits
  THEN DigitRun(buf, p + 1, IF acc >= MaxParse THEN acc ELSE acc * 10 + DigitVal(buf[p]))
  ELSE [val |-> acc, end |-> p]

\* atoi of the string at p
Atoi(buf, p) ==
  LET q    == SkipSpaces(buf, p)
      neg  == At(buf, q) = "-"
      r    == IF At(buf, q) \in {"-", "+"} THEN q + 1 ELSE q
      v    == DigitRun(buf, r, 0).val
  IN  IF neg THEN -v ELSE v

\* atof of the string at p in units of 1e-4, decimal notation (digits after
\* the fourth decimal are dropped; exponents, "inf" and "nan" are not NMEA)
FracScale == 10000

Atof(buf, p) ==
  LET q    == SkipSpaces(buf, p)
      neg  == At(buf, q) = "-"
      r    == IF At(buf, q) \in {"-", "+"} THEN q + 1 ELSE q
      ip   == DigitRun(buf, r, 0)
      f(k) == IF At(buf, ip.end) = "." /\ (\A j \in 1..k : At(buf, ip.end + j) \in Digits)
              THEN DigitVal(buf[ip.end + k]) ELSE 0
      v    == ip.val * FracScale + f(1) * 1000 + f(2) * 100 + f(3) * 10 + f(4)
  IN  IF neg THEN -v ELSE v

(***************************************************************************)
(* Arithmetic helpers.  TLC integers are 32 bit: products are split.       *)
(***************************************************************************)
Abs(a) == IF a < 0 THEN -a ELSE a

Sign(a) == IF a < 0 THEN -1 ELSE 1

\* a * b / c truncated toward zero, for b >= 0, without forming a * b
MulDiv(a, b, c) ==
  LET aa == Abs(a)
      cc == Abs(c)
      q  == (aa \div cc) * b + ((aa % cc) * b) \div cc
  IN  Sign(a) * Sign(c) * q

\* integer square root
RECURSIVE SqrtSearch(_, _, _)
SqrtSearch(n, lo, hi) ==
  IF lo >= hi THEN lo
  ELSE LET mid == (lo + hi + 1) \div 2
       IN  IF mid * mid <= n THEN SqrtSearch(n, mid, hi) ELSE SqrtSearch(n, lo, mid - 1)

ISqrt(n) == SqrtSearch(n, 0, 46340)

\* sin(k degrees) * 1e6 for k = 0..90 (index k + 1)
SinTable == <<
     0, 17452, 34899, 52336, 69756, 87156, 104528,
     121869, 139173, 156434, 173648, 190809, 207912, 224951,
     241922, 258819, 275637, 292372, 309017, 325568, 342020,
     358368, 374607, 390731, 406737, 422618, 438371, 453990,
     469472, 484810, 500000, 515038, 529919, 544639, 559193,
     573576, 587785, 601815, 615661, 629320, 642788, 656059,
     669131, 681998, 694658, 707107, 719340, 731354, 743145,
     754710, 766044, 777146, 788011, 798636, 809017, 819152,
     829038, 838671, 848048, 857167, 866025, 874620, 882948,
     891007, 898794, 906308, 913545, 920505, 927184, 933580,
     939693, 945519, 951057, 956305, 961262, 965926, 970296,
     974370, 978148, 981627, 984808, 987688, 990268, 992546,
     994522, 996195, 997564, 998630, 999391, 999848, 1000000 >>

SinDeg(k) == SinTable[k + 1]

CosDeg(k) == SinTable[90 - k + 1]

(***************************************************************************)
(* geo_to_pixel.c: the stages of the pipeline as functions.                *)
(***************************************************************************)
\* digit counts an undefined pointer difference may yield in NMEA_To_Decimal
UbDigits == {2, 3}

\* an NmeaValue that takes the minutes for hundredths of a degree
NmeaValue_Centesimal(buf, p, deg_digits) ==
  LET deg_buff == StrNCpy(buf, p, deg_digits) \o <<NUL>>
      degrees  == Atoi(deg_buff, 1)
      minutes  == Atof(buf, p + deg_digits)
  IN  degrees * 1000000 + minutes

\* NMEA_To_Decimal(nmea) for the string at position p of buf, in
\* micro-degrees, with deg_digits whole-degree digits
NmeaValue(buf, p, deg_digits) ==
  LET deg_buff == StrNCpy(buf, p, deg_digits) \o <<NUL>>
      degrees  == Atoi(deg_buff, 1)
      minutes  == Atof(buf, p + deg_digits)
  IN  degrees * 1000000 + MulDiv(minutes, 5, 3)

\* the values NMEA_To_Decimal can return.  Without a '.' the length is the
\* difference NULL - nmea, which is not defined: either digit count results.
NMEA_To_Decimal(buf, p) ==
  LET len == StrChr(buf, p, ".")
  IN  IF len = -1
      THEN {NmeaValue(buf, p, d) : d \in UbDigits}
      ELSE {NmeaValue(buf, p, IF len > 4 THEN 3 ELSE 2)}

\* speedKnots * 1.852f, in hundredths of km/h
KnotsToKmph(knots) == MulDiv(knots \div 100, 1852, 1000)

\* the sentence start the decoder searches for
GNRMC == <<"$", "G", "N", "R", "M", "C">>

\* a sentence that passes any status
SentenceAccepted_AnyStatus(status, n) == n >= 7

\* the test on a tokenised sentence: status 'A' and tokens 3..6 present
\* (n tokens were found; latStr .. lonDir are tokens 3..6, C index)
SentenceAccepted(status, n) == status = "A" /\ n >= 7

\* a string function that starts at position p of the 100-byte array reads
\* up to and including position last: it has left the array
ReadsBehind(last) == last > GPS_BUFFER_SIZE

\* the while loop of Read_GPS_Location from the search position start on, in
\* the memory mem (gps_buffer and the bytes that follow it): the possible
\* results [ret, lat, lon, speed, hasSpeed, oob]; oob tells that strstr or
\* strncpy read bytes behind gps_buffer
RECURSIVE ScanGNRMC(_, _)
ScanGNRMC(mem, start) ==
  LET pos == StrStr(mem, start, GNRMC)
  IN  IF pos = 0
      THEN {[ret |-> HAL_ERROR, lat |-> 0, lon |-> 0, speed |-> 0, hasSpeed |-> FALSE,
             oob |-> ReadsBehind(StrEnd(mem, start))]}
      ELSE LET copy     == StrNCpy(mem, pos, GPS_BUFFER_SIZE - 1) \o <<NUL>>
               tok      == StrTokStarts(copy)
               temp_buf == StrTokBuffer(copy)
               n        == Len(tok)
               status   == IF n >= 3 THEN temp_buf[tok[3]] ELSE NUL
               behind   == ReadsBehind(MinOf({pos + GPS_BUFFER_SIZE - 2, StrEnd(mem, pos)}))
           IN  IF SentenceAccepted(status, n)
               THEN {[ret      |-> HAL_OK,
                      lat      |-> IF temp_buf[tok[5]] = "S" THEN -lat0 ELSE lat0,
                      lon      |-> IF temp_buf[tok[7]] = "W" THEN -lon0 ELSE lon0,
                      speed    |-> IF n >= 8 THEN KnotsToKmph(Atof(temp_buf, tok[8])) ELSE 0,
                      hasSpeed |-> n >= 8,
                      oob      |-> behind] :
                        lat0 \in NMEA_To_Decimal(temp_buf, tok[4]),
                        lon0 \in NMEA_To_Decimal(temp_buf, tok[6])}
               ELSE {[r EXCEPT !.oob = @ \/ behind] : r \in ScanGNRMC(mem, pos + 6)}

\* what may follow gps_buffer in memory when the string functions run past
\* its end: a zero byte at once, or one more non-zero byte first
BehindBuffer == {<<>>, <<"?">>}

\* the memory the string functions of Read_GPS_Location can see: gps_buffer
\* itself when it holds a NUL, else gps_buffer and what follows it
VisibleMemory(gps_buffer) ==
  IF \E k \in 1..Len(gps_buffer) : gps_buffer[k] = NUL
  THEN {gps_buffer}
  ELSE {gps_buffer \o b : b \in BehindBuffer}

\* gps_buffer after memset and a receive that delivered the bytes rx
FillBuffer(rx) == Stored([k \in 1..GPS_BUFFER_SIZE |-> IF k <= Len(rx) THEN rx[k] ELSE NUL])

\* cos(lat) * 1000 for a latitude in micro-degrees, table with interpolation
CosMilli(lat) ==
  LET a    == IF Abs(lat) >= 90000000 THEN 90000000 ELSE Abs(lat)
      k    == a \div 1000000
      frac == a % 1000000
      c0   == CosDeg(k)
      c1   == IF k = 90 THEN 0 ELSE CosDeg(k + 1)
  IN  (c0 - MulDiv(frac \div 1000, c0 - c1, 1000)) \div 1000

\* coordinate differences above FarDelta micro-degrees are reported as FarDistance
FarDelta    == 2000
FarDistance == 1000000

\* GPS_CalcDistance in centimetres.  For points less than FarDelta apart the
\* haversine distance is R * sqrt(dLat^2 + cos(lat1) cos(lat2) dLon^2) up to
\* terms of third order; one micro-degree of arc is 11.1195 cm.
GPS_CalcDistance(lat1, lon1, lat2, lon2) ==
  LET dLat == lat2 - lat1
      dLon == lon2 - lon1
  IN  IF Abs(dLat) > FarDelta \/ Abs(dLon) > FarDelta
      THEN FarDistance
      ELSE LET dy == MulDiv(dLat, 111195, 10000)
               g  == ISqrt(CosMilli(lat1) * CosMilli(lat2))
               dx == MulDiv(MulDiv(dLon, 111195, 10000), g, 1000)
           IN  ISqrt(dy * dy + dx * dx)

\* a GPS_Filter that accepts a fix without remembering it as the last one
GPS_Filter_LastKept(gps) ==
  LET dist == GPS_CalcDistance(gps.raw_lat, gps.raw_lon, gps.last_lat, gps.last_lon)
  IN  IF dist < FILTER_MIN_DIST
      THEN [gps EXCEPT !.filtered_lat = gps.last_lat,
                       !.filtered_lon = gps.last_lon]
      ELSE [gps EXCEPT !.filtered_lat = gps.raw_lat,
                       !.filtered_lon = gps.raw_lon]

\* a GPS_Filter whose reject branch lets the raw fix through
GPS_Filter_RawThrough(gps) ==
  LET dist == GPS_CalcDistance(gps.raw_lat, gps.raw_lon, gps.last_lat, gps.last_lon)
  IN  IF dist < FILTER_MIN_DIST
      THEN [gps EXCEPT !.filtered_lat = gps.raw_lat,
                       !.filtered_lon = gps.raw_lon]
      ELSE [gps EXCEPT !.filtered_lat = gps.raw_lat,
                       !.filtered_lon = gps.raw_lon,
                       !.last_lat     = gps.raw_lat,
                       !.last_lon     = gps.raw_lon]

\* GPS_Filter
GPS_Filter(gps) ==
  LET dist == GPS_CalcDistance(gps.raw_lat, gps.raw_lon, gps.last_lat, gps.last_lon)
  IN  IF dist < FILTER_MIN_DIST
      THEN [gps EXCEPT !.filtered_lat = gps.last_lat,
                       !.filtered_lon = gps.last_lon]
      ELSE [gps EXCEPT !.filtered_lat = gps.raw_lat,
                       !.filtered_lon = gps.raw_lon,
                       !.last_lat     = gps.raw_lat,
                       !.last_lon     = gps.raw_lon]

\* Map_Float, result in tenths (of a pixel)
PxScale == 10

Map_Float(input, in_min, in_max, out_min, out_max) ==
  LET input_range == in_max - in_min
      ref_range   == out_max - out_min
  IN  MulDiv(input - in_min, ref_range * PxScale, input_range) + out_min * PxScale

\* (int) of a Map_Float result
ToInt(xf) == CDiv(xf, PxScale)

(***************************************************************************)
(* A Range Mapper call with arbitrary arguments.  Its outcome is "value"   *)
(* (ret is the number returned), "fault" (the integer division trapped),   *)
(* "nonfinite" (the float division gave an infinity or a NaN) or "error"   *)
(* (an error status was returned); div0 tells that a division by zero was  *)
(* executed.  An int division by zero is undefined: on the target it       *)
(* yields quotient 0, or a UsageFault when the divide-by-zero trap is on.  *)
(***************************************************************************)
\* largest magnitude of the range limits tried
MaxMapArg == 2

MapInputs == (0 - MaxMapArg)..(MaxMapArg + 2)

MapLimits == (0 - 1)..MaxMapArg

MapOutputs == {0 - 5, 0, 3, 100}

MapArgs ==
  [input : MapInputs, in_min : MapLimits, in_max : MapLimits,
   out_min : MapOutputs, out_max : MapOutputs]

NoMapCall ==
  [fn |-> "none", input |-> 0, in_min |-> 0, in_max |-> 0, out_min |-> 0, out_max |-> 0,
   reverse |-> 0, ret |-> 0, outcome |-> "none", div0 |-> FALSE,
   gpsPixelX |-> 0, gpsPixelY |-> 0]

\* raw map pixels handed to Get_Map_Draw_Position: around both edges of the
\* window in X (223, 673) and in Y (234, 504), and far outside
DrawPixels == {0 - 100000, 0, 222, 223, 224, 233, 234, 235, 400, 503, 504, 505, 672, 673, 674,
               800, 100000}

Map_Int_Outcomes(input, in_min, in_max, out_min, out_max) ==
  IF in_max - in_min = 0
  THEN {[ret |-> 0 + out_min, outcome |-> "value", div0 |-> TRUE],
        [ret |-> 0, outcome |-> "fault", div0 |-> TRUE]}
  ELSE {[ret |-> Map_Int(input, in_min, in_max, out_min, out_max), outcome |-> "value",
         div0 |-> FALSE]}

\* ret in tenths, as Map_Float
Map_Float_Outcomes(input, in_min, in_max, out_min, out_max) ==
  IF in_max - in_min = 0
  THEN {[ret |-> 0, outcome |-> "nonfinite", div0 |-> TRUE]}
  ELSE {[ret |-> Map_Float(input, in_min, in_max, out_min, out_max), outcome |-> "value",
         div0 |-> FALSE]}

\* Send_Nextion_Progress_Bar with arbitrary limits: ret is the number sent
Progress_Bar_Outcomes(val, maxVal, minVal, reverseProgressBar) ==
  IF minVal <= val /\ val <= maxVal /\ maxVal - minVal = 0
  THEN {IF o.outcome = "value"
        THEN [o EXCEPT !.ret = Uint8(IF reverseProgressBar = PROGRESS_BAR_REVERSE
                                     THEN 100 - @ ELSE @)]
        ELSE o : o \in Map_Int_Outcomes(val, minVal, maxVal, 0, 100)}
  ELSE LET cmdID == "SET_BATTERY_PROGRESS_BAR_COMMAND"
           pb    == Send_Nextion_Progress_Bar(<<>>, cmdID, val, maxVal, minVal,
                                              reverseProgressBar, "none")
       IN  IF pb.ret = HAL_ERROR
           THEN {[ret |-> 0, outcome |-> "error", div0 |-> FALSE]}
           ELSE {[ret     |-> CHOOSE n \in 0..255 :
                                pb.sent[1].text = Sprintf(NEX_Int_Command[cmdID], n),
                  outcome |-> "value",
                  div0    |-> FALSE]}

\* a clamp whose ceiling is one pixel too high
ClampPixel_CeilingOff(pixel, minVal, maxVal) ==
  IF pixel < minVal THEN minVal
  ELSE IF pixel > maxVal + 1 THEN maxVal + 1
  ELSE pixel

\* one axis of Get_Map_Draw_Position: offset and clamp
ClampPixel(pixel, minVal, maxVal) ==
  IF pixel < minVal THEN minVal
  ELSE IF pixel > maxVal THEN maxVal
  ELSE pixel

\* a Get_Map_Draw_Position that rounds the half icon size up
Get_Map_Draw_Position_HalfUp(gpsPixelX, gpsPixelY) ==
  [PixelX |-> ClampPixel(ICON_X + ((ICON_WIDTH + 1) \div 2) - gpsPixelX,
                         MAP_X_MIN_VAL, MAP_X_MAX_VAL),
   PixelY |-> ClampPixel(ICON_Y + ((ICON_HEIGHT + 1) \div 2) - gpsPixelY,
                         MAP_Y_MIN_VAL, MAP_Y_MAX_VAL)]

\* Get_Map_Draw_Position: the PixelX / PixelY it stores
Get_Map_Draw_Position(gpsPixelX, gpsPixelY) ==
  [PixelX |-> ClampPixel(ICON_X + (ICON_WIDTH \div 2) - gpsPixelX, MAP_X_MIN_VAL, MAP_X_MAX_VAL),
   PixelY |-> ClampPixel(ICON_Y + (ICON_HEIGHT \div 2) - gpsPixelY, MAP_Y_MIN_VAL, MAP_Y_MAX_VAL)]

\* Calculate_Geo_To_Pixel
Calculate_Geo_To_Pixel(gps) ==
  LET mappedX == ToInt(Map_Float(gps.filtered_lon, NW_lon, SE_lon, 0, MAP_X_SIZE))
      mappedY == ToInt(Map_Float(gps.filtered_lat, NW_lat, SE_lat, 0, MAP_Y_SIZE))
  IN  Get_Map_Draw_Position(mappedX, mappedY)

\* whole degrees of atan(b / a) for a > 0, b >= 0: the largest k in 0..89
\* with tan(k) <= b / a
AtanFloor(a, b) ==
  CHOOSE k \in 0..89 :
    /\ SinDeg(k) * a <= CosDeg(k) * b
    /\ k < 89 => SinDeg(k + 1) * a > CosDeg(k + 1) * b

\* the heading without the shift by 180 degrees: whole degrees in [-180, 180)
IconAngleOf_Unshifted(y, x) ==
  LET u == -x
      v == -y
  IN  CASE u > 0  /\ v >= 0 -> AtanFloor(u, v) - 180
        [] u <= 0 /\ v > 0  -> AtanFloor(v, -u) - 90
        [] u < 0  /\ v <= 0 -> AtanFloor(-u, -v)
        [] u >= 0 /\ v < 0  -> 90 + AtanFloor(-v, u)

\* (int) of atan2(y, x) * 180 / pi + 180 normalised into [0, 360), for
\* (x, y) # (0, 0): the whole degrees of the direction of (-x, -y)
IconAngleOf(y, x) ==
  LET u == -x
      v == -y
  IN  CASE u > 0  /\ v >= 0 -> AtanFloor(u, v)
        [] u <= 0 /\ v > 0  -> 90 + AtanFloor(v, -u)
        [] u < 0  /\ v <= 0 -> 180 + AtanFloor(-u, -v)
        [] u >= 0 /\ v < 0  -> 270 + AtanFloor(-v, u)

\* a Calculate_Icon_Angle without the test for a changed pixel: atan2(0, 0)
\* is 0, which the shift turns into 180
Calculate_Icon_Angle_Always(map, cached) ==
  [map    |-> [map EXCEPT !.IconAngle =
                 IF cached.PixelX = map.PixelX /\ cached.PixelY = map.PixelY
                 THEN 180
                 ELSE IconAngleOf(cached.PixelY - map.PixelY, cached.PixelX - map.PixelX)],
   cached |-> [cached EXCEPT !.PixelX = map.PixelX, !.PixelY = map.PixelY]]

\* Calculate_Icon_Angle: new [map, cached] from the map record (pixel already
\* written) and the cached record
Calculate_Icon_Angle(map, cached) ==
  IF cached.PixelX # map.PixelX \/ cached.PixelY # map.PixelY
  THEN [map    |-> [map EXCEPT !.IconAngle = IconAngleOf(cached.PixelY - map.PixelY,
                                                          cached.PixelX - map.PixelX)],
        cached |-> [cached EXCEPT !.PixelX = map.PixelX, !.PixelY = map.PixelY]]
  ELSE [map |-> map, cached |-> cached]

\* an Is_Lap_Complete that looks at the first two checkpoints only
Is_Lap_Complete_FirstTwo(cps) == IF \E index \in 1..2 : cps[index].status = 0 THEN 0 ELSE 1

\* Is_Lap_Complete
Is_Lap_Complete(cps) == IF \E index \in 1..NUM_CHECKPOINTS : cps[index].status = 0 THEN 0 ELSE 1

\* Clear_Checkpoints
Clear_Checkpoints(cps) == [index \in 1..NUM_CHECKPOINTS |-> [cps[index] EXCEPT !.status = 0]]

\* a selection that goes through all checkpoints and keeps the last one
\* closer than 5 m
SelectedCheckpoint_Last(cps, gps) ==
  LET near == {index \in 1..NUM_CHECKPOINTS :
                 GPS_CalcDistance(cps[index].lat, cps[index].lon,
                                  gps.filtered_lat, gps.filtered_lon) < CHECKPOINT_DIST}
  IN  IF near = {} THEN 0 ELSE CHOOSE index \in near : \A j \in near : index >= j

\* the checkpoint the for loop of Count_Lap stops at: the first one (C index
\* 0..2, here 1..3) closer than 5 m to the filtered position; 0 when none is
SelectedCheckpoint(cps, gps) ==
  LET near == {index \in 1..NUM_CHECKPOINTS :
                 GPS_CalcDistance(cps[index].lat, cps[index].lon,
                                  gps.filtered_lat, gps.filtered_lon) < CHECKPOINT_DIST}
  IN  IF near = {} THEN 0 ELSE CHOOSE index \in near : \A j \in near : index <= j

\* a Count_Lap that accepts checkpoint 2 only after checkpoint 1
Count_Lap_InOrder(cps, started, lap, gps) ==
  LET index == SelectedCheckpoint(cps, gps)
  IN  IF index = 0 THEN [cps |-> cps, started |-> started, lap |-> lap]
      ELSE IF index = 1
      THEN IF started # 0
           THEN LET marked == [cps EXCEPT ![1].status = 1]
                IN  [cps     |-> Clear_Checkpoints(marked),
                     started |-> 0,
                     lap     |-> IF Is_Lap_Complete(marked) = 1 THEN lap + 1 ELSE lap]
           ELSE [cps |-> cps, started |-> started, lap |-> lap]
      ELSE IF index = 3 /\ cps[2].status = 0
      THEN [cps |-> cps, started |-> 1, lap |-> lap]
      ELSE [cps |-> [cps EXCEPT ![index].status = 1], started |-> 1, lap |-> lap]

\* a Count_Lap that resets the lap state only when the lap is complete
Count_Lap_ResetOnLap(cps, started, lap, gps) ==
  LET index == SelectedCheckpoint(cps, gps)
  IN  IF index = 0 THEN [cps |-> cps, started |-> started, lap |-> lap]
      ELSE IF index = 1
      THEN IF started # 0
           THEN LET marked == [cps EXCEPT ![1].status = 1]
                IN  IF Is_Lap_Complete(marked) = 1
                    THEN [cps |-> Clear_Checkpoints(marked), started |-> 0, lap |-> lap + 1]
                    ELSE [cps |-> marked, started |-> started, lap |-> lap]
           ELSE [cps |-> cps, started |-> started, lap |-> lap]
      ELSE [cps |-> [cps EXCEPT ![index].status = 1], started |-> 1, lap |-> lap]

\* Count_Lap: new [cps, started, lap]
Count_Lap(cps, started, lap, gps) ==
  LET index == SelectedCheckpoint(cps, gps)
  IN  IF index = 0 THEN [cps |-> cps, started |-> started, lap |-> lap]
      ELSE IF index = 1
      THEN IF started # 0
           THEN LET marked == [cps EXCEPT ![1].status = 1]
                IN  [cps     |-> Clear_Checkpoints(marked),
                     started |-> 0,
                     lap     |-> IF Is_Lap_Complete(marked) = 1 THEN lap + 1 ELSE lap]
           ELSE [cps |-> cps, started |-> started, lap |-> lap]
      ELSE [cps |-> [cps EXCEPT ![index].status = 1], started |-> 1, lap |-> lap]

(***************************************************************************)
(* Inputs of the GPS side: the bytes a receive delivers into gps_buffer.   *)
(***************************************************************************)
\* nothing arrived before the timeout
BufEmpty ==
  <<>>

\* no $GNRMC sentence
BufNoise ==
  <<"$","G","P","G","G","A",",","1","2","3","5","1","9",",","4","8","0","7",".","0","3","8",",",
    "N",",","0","1","1","3","1",".","0","0","0",",","E",",","1",",","0","8",",","0",".","9","*",
    "4","7","\r","\n">>

\* a $GNRMC sentence with status 'V'
BufVoid ==
  <<"$","G","N","R","M","C",",","1","2","3","5","1","9",",","V",",","4","0","4","8",".","4","2",
    "0","0",",","N",",","0","2","9","2","1",".","3","9","0","0",",","E",",","0","2","2",".","4",
    ",","0","8","4",".","4",",","2","3","0","3","9","4","\r","\n">>

\* fix on checkpoint 0 of TrackCheckpoints
BufC0 ==
  <<"$","G","N","R","M","C",",","1","2","3","5","1","9",",","A",",","4","0","4","8",".","4","2",
    "0","0",",","N",",","0","2","9","2","1",".","3","9","0","0",",","E",",","0","2","2",".","4",
    ",","0","8","4",".","4",",","2","3","0","3","9","4","\r","\n">>

\* fix on checkpoint 1 of TrackCheckpoints
BufC1 ==
  <<"$","G","N","R","M","C",",","1","2","3","5","1","9",",","A",",","4","0","4","8",".","3","6",
    "0","0",",","N",",","0","2","9","2","1",".","5","4","0","0",",","E",",","0","2","2",".","4",
    ",","0","8","4",".","4",",","2","3","0","3","9","4","\r","\n">>

\* fix on checkpoint 2 of TrackCheckpoints
BufC2 ==
  <<"$","G","N","R","M","C",",","1","2","3","5","1","9",",","A",",","4","0","4","8",".","3","9",
    "0","0",",","N",",","0","2","9","2","1",".","4","5","0","0",",","E",",","0","2","2",".","4",
    ",","0","8","4",".","4",",","2","3","0","3","9","4","\r","\n">>

\* fix 1.7 m north of checkpoint 0
BufJitter ==
  <<"$","G","N","R","M","C",",","1","2","3","5","1","9",",","A",",","4","0","4","8",".","4","2",
    "0","9",",","N",",","0","2","9","2","1",".","3","9","0","0",",","E",",","0","2","2",".","4",
    ",","0","8","4",".","4",",","2","3","0","3","9","4","\r","\n">>

\* fix 3.9 m north of checkpoint 0
BufNear ==
  <<"$","G","N","R","M","C",",","1","2","3","5","1","9",",","A",",","4","0","4","8",".","4","2",
    "2","1",",","N",",","0","2","9","2","1",".","3","9","0","0",",","E",",","0","2","2",".","4",
    ",","0","8","4",".","4",",","2","3","0","3","9","4","\r","\n">>

\* fix inside the map, away from every checkpoint
BufMid ==
  <<"$","G","N","R","M","C",",","1","2","3","5","1","9",",","A",",","4","0","4","8",".","4","0",
    "5","0",",","N",",","0","2","9","2","1",".","5","1","0","0",",","E",",","0","1","0",".","0",
    ",","0","8","4",".","4",",","2","3","0","3","9","4","\r","\n">>

\* the fix of the NMEA example, far outside the map
BufOutside ==
  <<"$","G","N","R","M","C",",","1","2","3","5","1","9",",","A",",","4","8","0","7",".","0","3",
    "8",",","N",",","0","1","1","3","1",".","0","0","0",",","E",",","0","2","2",".","4",",","0",
    "8","4",".","4",",","2","3","0","3","9","4","\r","\n">>

\* fix on the southern and western hemisphere
BufSouthWest ==
  <<"$","G","N","R","M","C",",","1","2","3","5","1","9",",","A",",","4","0","4","8",".","4","2",
    "0","0",",","S",",","0","2","9","2","1",".","3","9","0","0",",","W",",","0","2","2",".","4",
    ",","0","8","4",".","4",",","2","3","0","3","9","4","\r","\n">>

\* fix on the coordinates of the compiled checkpoint table
BufTable ==
  <<"$","G","N","R","M","C",",","1","2","3","5","1","9",",","A",",","4","0","0","7",".","4","0",
    "7","0",",","N",",","0","2","9","0","7",".","4","0","7","0",",","E",",","0","2","2",".","4",
    ",","0","8","4",".","4",",","2","3","0","3","9","4","\r","\n">>

\* a void sentence followed by a valid one
BufSecond ==
  <<"$","G","N","R","M","C",",","1",",","V",",",",",",",",",",","\r","\n","$","G","N","R","M",
    "C",",","2",",","A",",","4","0","4","8",".","3","6","0","0",",","N",",","0","2","9","2","1",
    ".","5","4","0","0",",","E",",","5",".","0","\r","\n">>

\* a valid sentence whose coordinates have no decimal point
BufNoDot ==
  <<"$", "G", "N", "R", "M", "C", ",", "1", ",", "A", ",", "4",
   "0", "4", "8", ",", "N", ",", "0", "2", "9", "2", "1", ",",
   "E", ",", "5", ".", "0", "\r", "\n">>

\* GPS_BUFFER_SIZE bytes without a $GNRMC sentence: the receive completed
BufFull ==
  <<"$","G","P","G","G","A",",","1","2","3","5","1","9",",","4","8","0","7",".","0","3","8",",",
    "N",",","0","1","1","3","1",".","0","0","0",",","E",",","1",",","0","8",",","0",".","9","*",
    "4","7","\r","\n","$","G","P","G","G","A",",","1","2","3","5","1","9",",","4","8","0","7",
    ".","0","3","8",",","N",",","0","1","1","3","1",".","0","0","0",",","E",",","1",",","0","8",
    ",","0",".","9","*","4","7","\r","\n">>

\* a sentence with status 'A' whose latitude field is empty
BufEmptyLat ==
  <<"$","G","N","R","M","C",",","1","2","3","5","1","9",",","A",",",",","N",",","0","2","9","2",
    "1",".","3","9","0","0",",","E",",","0","2","2",".","4",",","0","8","4",".","4",",","2","3",
    "0","3","9","4","\r","\n">>

\* a sentence cut off after its latitude, followed by a valid sentence
BufCut ==
  <<"$","G","N","R","M","C",",","1",",","A",",","4","0","4","8",".","4","2","\r","\n","$","G",
    "N","R","M","C",",","2",",","A",",","4","0","4","8",".","3","6","0","0",",","N",",","0","2",
    "9","2","1",".","5","4","0","0",",","E",",","5",".","0","\r","\n">>

GpsInputs ==
  {BufEmpty, BufNoise, BufVoid, BufC0, BufC1,
   BufC2, BufJitter, BufNear, BufMid, BufOutside,
   BufSouthWest, BufTable, BufSecond, BufNoDot}

\* fix 5.9 m north of checkpoint 0, 2 m north of the fix of BufNear
BufEdge ==
  <<"$","G","N","R","M","C",",","1","2","3","5","1","9",",","A",",","4","0","4","8",".","4","2",
    "3","2",",","N",",","0","2","9","2","1",".","3","9","0","0",",","E",",","0","2","2",".","4",
    ",","0","8","4",".","4",",","2","3","0","3","9","4","\r","\n">>

\* the fixes a lap around the track is composed of
LoopInputs == {BufEmpty, BufC0, BufC1, BufC2, BufNear, BufEdge, BufOutside, BufTable}

\* what the decoder is examined with: also full and malformed buffers
ReadInputs == GpsInputs \cup {BufFull, BufEmptyLat, BufCut}

\* fixes around checkpoint 2 of TrackCheckpoints that differ from it in one
\* coordinate only, all of them inside the window of unsaturated pixels
BufWest ==
  <<"$","G","N","R","M","C",",","1","2","3","5","1","9",",","A",",","4","0","4","8",".","3","9",
    "0","0",",","N",",","0","2","9","2","1",".","3","9","0","0",",","E",",","0","2","2",".","4",
    ",","0","8","4",".","4",",","2","3","0","3","9","4","\r","\n">>

BufEast ==
  <<"$","G","N","R","M","C",",","1","2","3","5","1","9",",","A",",","4","0","4","8",".","3","9",
    "0","0",",","N",",","0","2","9","2","1",".","5","4","0","0",",","E",",","0","2","2",".","4",
    ",","0","8","4",".","4",",","2","3","0","3","9","4","\r","\n">>

BufNorth ==
  <<"$","G","N","R","M","C",",","1","2","3","5","1","9",",","A",",","4","0","4","8",".","4","2",
    "0","0",",","N",",","0","2","9","2","1",".","4","5","0","0",",","E",",","0","2","2",".","4",
    ",","0","8","4",".","4",",","2","3","0","3","9","4","\r","\n">>

BufSouth ==
  <<"$","G","N","R","M","C",",","1","2","3","5","1","9",",","A",",","4","0","4","8",".","3","6",
    "0","0",",","N",",","0","2","9","2","1",".","4","5","0","0",",","E",",","0","2","2",".","4",
    ",","0","8","4",".","4",",","2","3","0","3","9","4","\r","\n">>

\* receptions of a drive along the axes: a three by three grid of fixes
AxisInputs ==
  {BufEmpty, BufVoid, BufC0, BufC1, BufC2, BufMid, BufWest, BufEast, BufNorth, BufSouth}

\* a Read_GPS_Location that clears the raw position before it scans
Read_GPS_Location_Clearing(gps_buffer, gps) ==
  {IF r.ret = HAL_OK
   THEN [ret |-> HAL_OK, oob |-> r.oob,
         gps |-> [gps EXCEPT !.speed   = IF r.hasSpeed THEN r.speed ELSE @,
                             !.raw_lat = r.lat,
                             !.raw_lon = r.lon]]
   ELSE [ret |-> HAL_ERROR, oob |-> r.oob,
         gps |-> [gps EXCEPT !.raw_lat = 0, !.raw_lon = 0]] :
     r \in UNION {ScanGNRMC(mem, 1) : mem \in VisibleMemory(gps_buffer)}}

\* Read_GPS_Location on the filled buffer: the possible outcomes, each the
\* status returned and the new _gpsData
Read_GPS_Location(gps_buffer, gps) ==
  {IF r.ret = HAL_OK
   THEN [ret |-> HAL_OK, oob |-> r.oob,
         gps |-> [gps EXCEPT !.speed   = IF r.hasSpeed THEN r.speed ELSE @,
                             !.raw_lat = r.lat,
                             !.raw_lon = r.lon]]
   ELSE [ret |-> HAL_ERROR, oob |-> r.oob, gps |-> gps] :
     r \in UNION {ScanGNRMC(mem, 1) : mem \in VisibleMemory(gps_buffer)}}

\* a compiled table whose three entries are three points of the track
CompiledCheckpoints_Distinct ==
  <<[status |-> 0, lat |-> 40807000, lon |-> 29356500],
    [status |-> 0, lat |-> 40806000, lon |-> 29359000],
    [status |-> 0, lat |-> 40806500, lon |-> 29357500]>>

\* static GPS_Checkpoint Checkpoints[3] as compiled: three identical entries
CompiledCheckpoints ==
  [index \in 1..NUM_CHECKPOINTS |-> [status |-> 0, lat |-> 40123450, lon |-> 29123450]]

\* a checkpoint configuration with three distinct points inside the map
TrackCheckpoints ==
  <<[status |-> 0, lat |-> 40807000, lon |-> 29356500],
    [status |-> 0, lat |-> 40806000, lon |-> 29359000],
    [status |-> 0, lat |-> 40806500, lon |-> 29357500]>>

CheckpointTables == {CompiledCheckpoints, TrackCheckpoints}

(***************************************************************************)
(* One loop of the track, told from the fixes: the checkpoints (C index    *)
(* 1, 2) a fix has come within 5 m of, and the return to checkpoint 0.     *)
(***************************************************************************)
\* the checkpoints (1..3 for C index 0..2) the raw fix lies within 5 m of
Zones(cps, gps) ==
  {index \in 1..NUM_CHECKPOINTS :
     GPS_CalcDistance(cps[index].lat, cps[index].lon, gps.raw_lat, gps.raw_lon)
       < CHECKPOINT_DIST}

\* no fix yet
LoopStart ==
  [phase |-> "start", seen |-> {}, away |-> FALSE, order |-> <<>>, closed |-> <<>>]

\* the loop after a run in which the for loop of Count_Lap has stopped at
\* checkpoint index (0: at none): order lists the checkpoints other than the
\* start line in the order of their first selection since the start line
\* was selected last, closed is that list as the start line found it
LoopSelected(lp, index) ==
  IF index = 1 THEN [lp EXCEPT !.order = <<>>, !.closed = lp.order]
  ELSE IF index = 0 \/ (\E k \in 1..Len(lp.order) : lp.order[k] = index) THEN lp
  ELSE [lp EXCEPT !.order = Append(@, index)]

\* the loop after a fix that lies within 5 m of the checkpoints Z.
\*   start  no fix near C1 or C2 yet
\*   out    C1 or C2 has been passed; seen holds those passed, away tells
\*          that a fix off the start line has been decoded since
\*   done   the loop is closed: C1 and C2 passed, then back within 5 m of C0
\*   off    the fixes describe something else (the start line crossed
\*          early, or a second loop begun)
LoopAfter(lp, Z) ==
  LET mid == Z \cap {2, 3}
  IN  CASE lp.phase = "start" ->
             IF mid = {} THEN lp
             ELSE [lp EXCEPT !.phase = "out", !.seen = mid, !.away = 1 \notin Z]
        [] lp.phase = "out" ->
             IF 1 \notin Z THEN [lp EXCEPT !.seen = @ \cup mid, !.away = TRUE]
             ELSE IF ~lp.away THEN [lp EXCEPT !.seen = @ \cup mid]
             ELSE IF lp.seen = {2, 3} THEN [lp EXCEPT !.phase = "done"]
             ELSE [lp EXCEPT !.phase = "off"]
        [] lp.phase = "done" ->
             IF mid = {} THEN lp ELSE [lp EXCEPT !.phase = "off"]
        [] OTHER -> lp

(***************************************************************************)
(* State.                                                                  *)
(***************************************************************************)
VARIABLES
  app,              \* the application's variables the NEX_Data pointers refer to
  MapData,          \* main.c: the MapOffset record shared by pipeline and display
  _uart,            \* dashboard_controls.c: static UART_HandleTypeDef *_uart
  _dashboard,       \* dashboard_controls.c: static NEX_Data *_dashboard
  _previousValues,  \* dashboard_controls.c: static NEX_CachedData _previousValues
  pc,               \* "idle", or "handshake" while the loop of NEX_Handshake runs
  hs,               \* locals of NEX_Handshake: loop index i and rx_buffer[0..1]
  call,             \* the display call that has just returned (or runs): name,
                    \* arguments, status returned
  sent,             \* the HAL_UART_Transmit calls of that call, in order
  rxCalls,          \* number of HAL_UART_Receive calls made by that call
  gotOK,            \* some receive of that call delivered the two bytes 'O','K'
  txAtRx,           \* per HAL_UART_Receive call of that call, the number of
                    \* HAL_UART_Transmit calls made before it began
  txFailed,         \* number of HAL_UART_Transmit calls of that call that returned
                    \* an error and sent nothing
  lastTx,           \* per field, the value carried by the last command sent for it
  liveAtRefresh,    \* the live values read by the previous NEX_Refresh (<<>>: none yet)
  nWrites,          \* number of changes of the live values so far
  nCalls,           \* number of display calls so far
  _uartGps,         \* geo_to_pixel.c: static UART_HandleTypeDef *_uart
  _mapData,         \* geo_to_pixel.c: static MapOffset *_mapData
  gps_buffer,       \* geo_to_pixel.c: char gps_buffer[GPS_BUFFER_SIZE]
  _gpsData,         \* geo_to_pixel.c: static GPS_Data _gpsData
  _mapCachedData,   \* geo_to_pixel.c: static MapOffset _mapCachedData
  Checkpoints,      \* geo_to_pixel.c: static GPS_Checkpoint Checkpoints[3]
  Is_Lap_Started,   \* geo_to_pixel.c: static uint8_t Is_Lap_Started
  mapCall,          \* mapping.c: the arguments of a Range Mapper call and, once the
                    \* call is made, its outcome
  geoCall,          \* the pipeline call made last: name, status of Read_GPS_Location,
                    \* whether it read memory behind gps_buffer, and what the call
                    \* returned to its caller ("void": the function returns nothing)
  loop              \* how far the fixes decoded so far describe one loop of the track

nexVars == <<app, _uart, _dashboard, _previousValues, pc, hs, call, sent, rxCalls,
             gotOK, txAtRx, txFailed, lastTx, liveAtRefresh, nWrites, nCalls>>

geoVars == <<_uartGps, _mapData, gps_buffer, _gpsData, _mapCachedData, Checkpoints,
             Is_Lap_Started, geoCall, loop>>

vars == <<nexVars, MapData, geoVars, mapCall>>

(***************************************************************************)
(* Inputs of the display side.                                             *)
(***************************************************************************)
\* values the application stores in its variables
LiveDomain ==
  [ speed        |-> {0, 7},
    batteryValue |-> {0, 100, 150, -1},
    powerKW      |-> {0, 6, 7},
    packVoltage  |-> {0, 5220},
    maxVoltage   |-> {0, 375},
    minVoltage   |-> {0, 370},
    batteryTemp  |-> {0, 2750},
    gear         |-> {0, 1, 2, 3},
    handbrake    |-> {0, 1, 2},
    signalLeft   |-> {0, 1},
    signalRight  |-> {0, 1},
    connWarn     |-> {0, 1},
    battWarn     |-> {0, 1},
    lights       |-> {0, 1} ]

\* arguments of NEX_Bind / NEX_Init
UartArgs == {NULL, "huart2"}

DataArgs == {NULL, "dashboardValues"}

\* bytes the display may answer with, and bytes an uninitialised rx_buffer may hold
RxBytes == {"O", "K", "?"}

\* what the GPS delivers while the display side is examined
TickInputs == {BufEmpty, BufMid, BufOutside}

\* the live value of every field, as NEX_Refresh dereferences it
LiveValues == [f \in Fields |-> IF f \in MapFields THEN MapData[f] ELSE app[f]]

ZeroFields == [f \in Fields |-> 0]

\* NEX_Handshake is not running: its locals do not exist
NoLocals == [i |-> 0, rx_buffer |-> <<"?", "?">>]

NoCall == [name |-> "none", uart |-> NULL, data |-> NULL, ret |-> "none"]

(***************************************************************************)
(* Initial state: statics as their initialisers leave them, nothing bound. *)
(* InitWith(cps) starts with the checkpoint table cps.                     *)
(***************************************************************************)
InitWith(cps) ==
  /\ app = [f \in AppFields |-> 0]
  /\ MapData = [PixelX |-> 0, PixelY |-> 0, IconAngle |-> 0, Lap |-> 0]
  /\ _uart = NULL
  /\ _dashboard = NULL
  /\ _previousValues = ZeroFields
  /\ pc = "idle"
  /\ hs = NoLocals
  /\ call = NoCall
  /\ sent = <<>>
  /\ rxCalls = 0
  /\ gotOK = FALSE
  /\ txAtRx = <<>>
  /\ txFailed = 0
  /\ lastTx = ZeroFields
  /\ liveAtRefresh = <<>>
  /\ nWrites = 0
  /\ nCalls = 0
  /\ _uartGps = NULL
  /\ _mapData = NULL
  /\ gps_buffer = [k \in 1..GPS_BUFFER_SIZE |-> NUL]
  /\ _gpsData = [speed |-> 0, last_lat |-> 0, last_lon |-> 0, raw_lat |-> 0,
                 raw_lon |-> 0, filtered_lat |-> 0, filtered_lon |-> 0]
  /\ _mapCachedData = [PixelX |-> 0, PixelY |-> 0, IconAngle |-> 0, Lap |-> 0]
  /\ Checkpoints = cps
  /\ Is_Lap_Started = 0
  /\ geoCall = [name |-> "none", ret |-> "none", oob |-> FALSE, returned |-> "none"]
  /\ loop = LoopStart

\* the program as compiled
Init == InitWith(CompiledCheckpoints) /\ mapCall = NoMapCall

\* the program with either checkpoint configuration
InitTrack == (\E cps \in CheckpointTables : InitWith(cps)) /\ mapCall = NoMapCall

\* before a Range Mapper call: the arguments are chosen, nothing else has run
InitMap ==
  /\ InitWith(CompiledCheckpoints)
  /\ \E a \in MapArgs :
       mapCall = [NoMapCall EXCEPT !.input = a.input, !.in_min = a.in_min,
                                   !.in_max = a.in_max, !.out_min = a.out_min,
                                   !.out_max = a.out_max]

\* before a call of Get_Map_Draw_Position: the raw pixel is chosen
InitDraw ==
  /\ InitWith(CompiledCheckpoints)
  /\ \E x \in DrawPixels, y \in DrawPixels :
       mapCall = [NoMapCall EXCEPT !.gpsPixelX = x, !.gpsPixelY = y]

(***************************************************************************)
(* The application changes one of its variables between two calls.         *)
(***************************************************************************)
\* call, sent, rxCalls and gotOK describe the display call that has just
\* returned; they are empty again once the main loop has moved on
CallForgotten ==
  /\ call' = NoCall
  /\ sent' = <<>>
  /\ rxCalls' = 0
  /\ gotOK' = FALSE
  /\ txAtRx' = <<>>
  /\ txFailed' = 0

App_Write(f, v) ==
  /\ pc = "idle"
  /\ nWrites < MaxWrites
  /\ v # app[f]
  /\ app' = [app EXCEPT ![f] = v]
  /\ nWrites' = nWrites + 1
  /\ CallForgotten
  /\ UNCHANGED <<MapData, _uart, _dashboard, _previousValues, pc, hs, lastTx,
                 liveAtRefresh, nCalls, geoVars, mapCall>>

(***************************************************************************)
(* NEX_Bind                                                                *)
(***************************************************************************)
\* a NEX_Bind that stores its arguments before it checks them
BindBody_StoreFirst(uart, data, oldUart, oldDashboard) ==
  [ret       |-> IF uart = NULL \/ data = NULL THEN HAL_ERROR ELSE HAL_OK,
   uart      |-> uart,
   dashboard |-> data]

\* the status NEX_Bind returns and the statics it leaves behind
BindBody(uart, data, oldUart, oldDashboard) ==
  IF uart = NULL \/ data = NULL
  THEN [ret |-> HAL_ERROR, uart |-> oldUart, dashboard |-> oldDashboard]
  ELSE [ret |-> HAL_OK, uart |-> uart, dashboard |-> data]

NEX_Bind(uart, data) ==
  /\ pc = "idle"
  /\ nCalls < MaxCalls
  /\ LET b == BindBody(uart, data, _uart, _dashboard)
     IN  /\ _uart' = b.uart
         /\ _dashboard' = b.dashboard
         /\ call' = [name |-> "NEX_Bind", uart |-> uart, data |-> data, ret |-> b.ret]
  /\ sent' = <<>>
  /\ rxCalls' = 0
  /\ gotOK' = FALSE
  /\ txAtRx' = <<>>
  /\ txFailed' = 0
  /\ nCalls' = nCalls + 1
  /\ UNCHANGED <<app, MapData, _previousValues, pc, hs, lastTx, liveAtRefresh, nWrites,
                 geoVars, mapCall>>

(***************************************************************************)
(* NEX_Handshake: entry, then one action per iteration of the for loop.    *)
(***************************************************************************)
\* entry: rx_buffer is an uninitialised automatic array holding b0, b1
HandshakeEnter(name, uart, data, b0, b1) ==
  /\ pc' = "handshake"
  /\ hs' = [i |-> 0, rx_buffer |-> <<b0, b1>>]
  /\ call' = [name |-> name, uart |-> uart, data |-> data, ret |-> "running"]
  /\ sent' = <<>>
  /\ rxCalls' = 0
  /\ gotOK' = FALSE
  /\ txAtRx' = <<>>
  /\ txFailed' = 0
  /\ nCalls' = nCalls + 1

NEX_Handshake ==
  /\ pc = "idle"
  /\ nCalls < MaxCalls
  /\ _uart # NULL
  /\ \E b0 \in RxBytes, b1 \in RxBytes : HandshakeEnter("NEX_Handshake", NULL, NULL, b0, b1)
  /\ UNCHANGED <<app, MapData, _uart, _dashboard, _previousValues, lastTx,
                 liveAtRefresh, nWrites, geoVars, mapCall>>

\* HAL_UART_Receive(_uart, rx_buffer, 2, timeout): n bytes arrive before the
\* timeout (n = 2: the call completes); only those n bytes are stored
UartReceive2(buf, n, d0, d1) ==
  <<IF n >= 1 THEN d0 ELSE buf[1], IF n >= 2 THEN d1 ELSE buf[2]>>

\* the test that ends the loop
IsOK(buf) == buf[1] = "O" /\ buf[2] = "K"

\* one iteration: receive, send "con=1", test rx_buffer
NEX_Handshake_Attempt(n, d0, d1) ==
  /\ pc = "handshake"
  /\ hs.i < NEX_HANDSHAKE_ATTEMPTS
  /\ LET buf == UartReceive2(hs.rx_buffer, n, d0, d1)
     IN  /\ rxCalls' = rxCalls + 1
         /\ txAtRx' = Append(txAtRx, Len(sent))
         /\ gotOK' = (gotOK \/ (n = 2 /\ d0 = "O" /\ d1 = "K"))
         /\ sent' = Send_Nextion_Command(sent, "CONNECTION_OK", NoTag)
         /\ IF IsOK(buf)
            THEN /\ pc' = "idle"
                 /\ call' = [call EXCEPT !.ret = HAL_OK]
                 /\ hs' = NoLocals
            ELSE IF hs.i + 1 < NEX_HANDSHAKE_ATTEMPTS
                 THEN /\ hs' = [i |-> hs.i + 1, rx_buffer |-> buf]
                      /\ UNCHANGED <<pc, call>>
                 ELSE /\ pc' = "idle"
                      /\ call' = [call EXCEPT !.ret = HAL_ERROR]
                      /\ hs' = NoLocals
  /\ UNCHANGED <<app, MapData, _uart, _dashboard, _previousValues, txFailed, lastTx,
                 liveAtRefresh, nWrites, nCalls, geoVars, mapCall>>

(***************************************************************************)
(* NEX_Init: NEX_Bind, and only if it succeeded NEX_Handshake(2000).       *)
(***************************************************************************)
NEX_Init(uart, data) ==
  /\ pc = "idle"
  /\ nCalls < MaxCalls
  /\ LET b == BindBody(uart, data, _uart, _dashboard)
     IN  /\ _uart' = b.uart
         /\ _dashboard' = b.dashboard
         /\ IF b.ret = HAL_ERROR
            THEN /\ call' = [name |-> "NEX_Init", uart |-> uart, data |-> data,
                             ret |-> HAL_ERROR]
                 /\ sent' = <<>>
                 /\ rxCalls' = 0
                 /\ gotOK' = FALSE
                 /\ txAtRx' = <<>>
                 /\ txFailed' = 0
                 /\ nCalls' = nCalls + 1
                 /\ UNCHANGED <<pc, hs>>
            ELSE \E b0 \in RxBytes, b1 \in RxBytes :
                    HandshakeEnter("NEX_Init", uart, data, b0, b1)
  /\ UNCHANGED <<app, MapData, _previousValues, lastTx, liveAtRefresh, nWrites, geoVars, mapCall>>

\* main.c calls NEX_Init once, before anything else
Startup(uart, data) ==
  /\ nCalls = 0
  /\ nWrites = 0
  /\ _mapData = NULL
  /\ NEX_Init(uart, data)

(***************************************************************************)
(* NEX_Refresh                                                             *)
(***************************************************************************)
\* the commands of a transmit log that carry a field's value itself
ValueCmds(log) == {k \in 1..Len(log) : log[k].kind = "cmd" /\ log[k].tag.field \in Fields
                                        /\ ~log[k].tag.bar}

\* lastTx after the transmissions of log
CarriedAfter(old, log) ==
  [f \in Fields |->
     LET ks == {k \in ValueCmds(log) : log[k].tag.field = f}
     IN  IF ks = {} THEN old[f]
         ELSE log[CHOOSE k \in ks : \A j \in ks : j <= k].tag.val]

\* ready tells whether the UART accepts data during the call: when it does
\* not, every HAL_UART_Transmit returns an error at once and sends nothing.
\* Send_String_To_Nextion and Command_Terminator drop that status.
NEX_Refresh(ready) ==
  /\ pc = "idle"
  /\ nCalls < MaxCalls
  /\ _dashboard # NULL
  /\ LET r == RefreshBody(_previousValues, LiveValues)
     IN  /\ _previousValues' = r.prev
         /\ sent' = IF ready THEN r.sent ELSE <<>>
         /\ txFailed' = IF ready THEN 0 ELSE Len(r.sent)
         /\ call' = [name |-> "NEX_Refresh", uart |-> NULL, data |-> NULL, ret |-> r.ret]
         /\ lastTx' = IF ready THEN CarriedAfter(lastTx, r.sent) ELSE lastTx
  /\ rxCalls' = 0
  /\ gotOK' = FALSE
  /\ txAtRx' = <<>>
  /\ liveAtRefresh' = LiveValues
  /\ nCalls' = nCalls + 1
  /\ UNCHANGED <<app, MapData, _uart, _dashboard, pc, hs, nWrites, geoVars, mapCall>>

(***************************************************************************)
(* Geo_To_Pixel_Init: Geo_To_Pixel_Bind and Clear_Checkpoints.             *)
(***************************************************************************)
Geo_To_Pixel_Init(uart, mapData) ==
  /\ pc = "idle"
  /\ _uartGps' = uart
  /\ _mapData' = mapData
  /\ Checkpoints' = Clear_Checkpoints(Checkpoints)
  /\ geoCall' = [name |-> "Geo_To_Pixel_Init", ret |-> "none", oob |-> FALSE,
                  returned |-> "void"]
  /\ UNCHANGED <<nexVars, MapData, gps_buffer, _gpsData, _mapCachedData, Is_Lap_Started,
                 loop, mapCall>>

(***************************************************************************)
(* Run_GeoPipeline: the receive delivers rx; decode, filter, map to        *)
(* pixels, heading, lap.                                                   *)
(***************************************************************************)
\* the stages after a successful Read_GPS_Location, on the decoded gps
\* record: the new statics and the new content of *_mapData
PipelineStages(gps0, map, cached, cps, started) ==
  LET gps == GPS_Filter(gps0)
      px  == Calculate_Geo_To_Pixel(gps)
      m1  == [map EXCEPT !.PixelX = px.PixelX, !.PixelY = px.PixelY]
      ia  == Calculate_Icon_Angle(m1, cached)
      cl  == Count_Lap(cps, started, ia.map.Lap, gps)
  IN  [gps |-> gps, map |-> [ia.map EXCEPT !.Lap = cl.lap], cached |-> ia.cached,
       cps |-> cl.cps, started |-> cl.started]

GeoRun(rx) ==
  /\ pc = "idle"
  /\ _mapData # NULL
  /\ MapData.Lap < MaxLaps
  /\ \E buf \in {FillBuffer(rx)} :
       /\ gps_buffer' = buf
       /\ \E rd \in Read_GPS_Location(buf, _gpsData) :
            /\ geoCall' = [name |-> "Run_GeoPipeline", ret |-> rd.ret, oob |-> rd.oob,
                            returned |-> "void"]
            /\ IF rd.ret = HAL_OK
               THEN \E r \in {PipelineStages(rd.gps, MapData, _mapCachedData, Checkpoints,
                                             Is_Lap_Started)} :
                       /\ _gpsData' = r.gps
                       /\ MapData' = r.map
                       /\ _mapCachedData' = r.cached
                       /\ Checkpoints' = r.cps
                       /\ Is_Lap_Started' = r.started
               ELSE /\ _gpsData' = rd.gps
                    /\ UNCHANGED <<MapData, _mapCachedData, Checkpoints, Is_Lap_Started>>
  /\ UNCHANGED <<_uartGps, _mapData>>

Run_GeoPipeline(rx) ==
  /\ GeoRun(rx)
  /\ UNCHANGED <<nexVars, loop, mapCall>>

\* main.c calls Geo_To_Pixel_Init once, before the first pipeline run
Geo_Startup(uart, mapData) ==
  /\ _mapData = NULL
  /\ Geo_To_Pixel_Init(uart, mapData)

\* a pipeline run during a lap: the fix it decodes continues the loop
Loop_GeoPipeline(rx) ==
  /\ loop.phase # "off"
  /\ GeoRun(rx)
  /\ loop' = IF geoCall'.ret = HAL_OK
             THEN LoopSelected(LoopAfter(loop, Zones(Checkpoints, _gpsData')),
                               SelectedCheckpoint(Checkpoints, _gpsData'))
             ELSE loop
  /\ UNCHANGED <<nexVars, mapCall>>

\* Read_GPS_Location on its own: the first statement of Run_GeoPipeline, for
\* the claims about the decoder
Read_GPS_Location_Call(rx) ==
  /\ pc = "idle"
  /\ _uartGps # NULL
  /\ \E buf \in {FillBuffer(rx)} :
       /\ gps_buffer' = buf
       /\ \E rd \in Read_GPS_Location(buf, _gpsData) :
            /\ geoCall' = [name |-> "Read_GPS_Location", ret |-> rd.ret, oob |-> rd.oob,
                            returned |-> rd.ret]
            /\ _gpsData' = rd.gps
  /\ UNCHANGED <<nexVars, MapData, _uartGps, _mapData, _mapCachedData, Checkpoints,
                 Is_Lap_Started, loop, mapCall>>

\* the outcome o of the call fn is recorded; nothing else changes
MapReturn(fn, reverse, o) ==
  /\ mapCall.fn = "none"
  /\ mapCall' = [mapCall EXCEPT !.fn = fn, !.reverse = reverse, !.ret = o.ret,
                                !.outcome = o.outcome, !.div0 = o.div0]
  /\ UNCHANGED <<nexVars, MapData, geoVars>>

\* Get_Map_Draw_Position on the raw pixel chosen initially
Get_Map_Draw_Position_Call ==
  /\ mapCall.fn = "none"
  /\ _mapData # NULL
  /\ \E px \in {Get_Map_Draw_Position(mapCall.gpsPixelX, mapCall.gpsPixelY)} :
       MapData' = [MapData EXCEPT !.PixelX = px.PixelX, !.PixelY = px.PixelY]
  /\ mapCall' = [mapCall EXCEPT !.fn = "Get_Map_Draw_Position"]
  /\ UNCHANGED <<nexVars, geoVars>>

Map_Int_Call ==
  \E o \in Map_Int_Outcomes(mapCall.input, mapCall.in_min, mapCall.in_max,
                            mapCall.out_min, mapCall.out_max) :
    MapReturn("Map_Int", 0, o)

Map_Float_Call ==
  \E o \in Map_Float_Outcomes(mapCall.input, mapCall.in_min, mapCall.in_max,
                              mapCall.out_min, mapCall.out_max) :
    MapReturn("Map_Float", 0, o)

Progress_Bar_Call(reverseProgressBar) ==
  \E o \in Progress_Bar_Outcomes(mapCall.input, mapCall.in_max, mapCall.in_min,
                                 reverseProgressBar) :
    MapReturn("Send_Nextion_Progress_Bar", reverseProgressBar, o)

\* a pipeline run of the main loop, seen from the display: the map fields
\* are live values that change between two refreshes
Tick_GeoPipeline(rx) ==
  /\ nWrites < MaxWrites
  /\ GeoRun(rx)
  /\ nWrites' = nWrites + 1
  /\ CallForgotten
  /\ UNCHANGED <<app, _uart, _dashboard, _previousValues, pc, hs, lastTx, liveAtRefresh,
                 nCalls, loop, mapCall>>

(***************************************************************************)
(* Specifications.                                                         *)
(*   Spec      the main program: NEX_Init at start-up, then live values    *)
(*             change and are refreshed                                    *)
(*   SpecInit  binding and handshake, called in any order                  *)
(*   SpecGeo   the GPS pipeline, with either checkpoint configuration      *)
(*   SpecLoop  the GPS pipeline fed the fixes of a lap around the track     *)
(*   SpecRead  the decoder alone, on well-formed, malformed and full       *)
(*             buffers                                                     *)
(***************************************************************************)
Next ==
  \/ \E u \in UartArgs, d \in DataArgs : Startup(u, d)
  \/ \E n \in 0..2, d0 \in RxBytes, d1 \in RxBytes : NEX_Handshake_Attempt(n, d0, d1)
  \/ \E f \in AppFields : \E v \in LiveDomain[f] : App_Write(f, v)
  \/ \E u \in UartArgs, d \in DataArgs : NEX_Bind(u, d)
  \/ \E ready \in BOOLEAN : NEX_Refresh(ready)
  \/ Geo_To_Pixel_Init("huart3", "MapData")
  \/ \E rx \in TickInputs : Tick_GeoPipeline(rx)

Spec == Init /\ [][Next]_vars

NextInit ==
  \/ \E u \in UartArgs, d \in DataArgs : NEX_Bind(u, d)
  \/ \E u \in UartArgs, d \in DataArgs : NEX_Init(u, d)
  \/ NEX_Handshake
  \/ \E n \in 0..2, d0 \in RxBytes, d1 \in RxBytes : NEX_Handshake_Attempt(n, d0, d1)

SpecInit == Init /\ [][NextInit]_vars

NextGeo ==
  \/ Geo_To_Pixel_Init("huart3", "MapData")
  \/ \E rx \in GpsInputs : Run_GeoPipeline(rx)

SpecGeo == InitTrack /\ [][NextGeo]_vars

NextLoop ==
  \/ Geo_Startup("huart3", "MapData")
  \/ \E rx \in LoopInputs : Loop_GeoPipeline(rx)

SpecLoop == InitTrack /\ [][NextLoop]_vars

NextRead ==
  \/ Geo_To_Pixel_Init("huart3", "MapData")
  \/ \E rx \in ReadInputs : Read_GPS_Location_Call(rx)

SpecRead == Init /\ [][NextRead]_vars

\* one Range Mapper call on the arguments chosen initially
NextMap ==
  \/ Map_Int_Call
  \/ Map_Float_Call
  \/ \E r \in {PROGRESS_BAR_REVERSE, PROGRESS_BAR_NO_REVERSE} : Progress_Bar_Call(r)

SpecMap == InitMap /\ [][NextMap]_vars

\* Get_Map_Draw_Position alone, once the pipeline is initialised
NextDraw ==
  \/ Geo_Startup("huart3", "MapData")
  \/ Get_Map_Draw_Position_Call

SpecDraw == InitDraw /\ [][NextDraw]_vars

\* the pipeline alone on the fixes of AxisInputs, for the heading convention
NextAxis ==
  \/ Geo_Startup("huart3", "MapData")
  \/ \E rx \in AxisInputs : Run_GeoPipeline(rx)

SpecAxis == Init /\ [][NextAxis]_vars

(***************************************************************************)
(* Send_Nextion_Int on its own: the command is formatted into the local    *)
(* array char command[20].  sprintf does not know the size of the array; a *)
(* text that needs more bytes is written behind its end, which is          *)
(* undefined: the call may go on as if the array were large enough, or     *)
(* fault before anything is transmitted.                                   *)
(***************************************************************************)
\* sizeof(command)
CommandSize == 20

\* values of the int variables the dashboard fields point to
FormatValues ==
  {0, 7, 0 - 1, 5220, 999999999, 1000000000, 2147483647,
   0 - 999999999, 0 - 1000000000, 0 - 2147483647}

\* the calls NEX_Refresh makes: the live value with the number templates, a
\* rescaled value in 0..100 with the two progress-bar templates
FormatArgs ==
  {a \in [cmdID : DOMAIN NEX_Int_Command, val : FormatValues \cup {100}] :
     IF a.cmdID \in {"SET_BATTERY_PROGRESS_BAR_COMMAND", "SET_KW_PROGRESS_BAR_COMMAND"}
     THEN a.val \in 0..100
     ELSE a.val \in FormatValues}

\* bytes sprintf writes for the text str: its characters and the final NUL
SprintfBytes(str) == Len(str) + 1

Send_Nextion_Int_Call(cmdID, val) ==
  /\ pc = "idle"
  /\ nCalls < MaxCalls
  /\ _uart # NULL
  /\ \E ret \in IF SprintfBytes(Sprintf(NEX_Int_Command[cmdID], val)) > CommandSize
                 THEN {"void", "fault"}
                 ELSE {"void"} :
       /\ call' = [name |-> "Send_Nextion_Int", uart |-> NULL, data |-> NULL, ret |-> ret]
       /\ sent' = IF ret = "void" THEN Send_Nextion_Int(<<>>, cmdID, val, NoTag) ELSE <<>>
  /\ rxCalls' = 0
  /\ gotOK' = FALSE
  /\ txAtRx' = <<>>
  /\ txFailed' = 0
  /\ nCalls' = nCalls + 1
  /\ UNCHANGED <<app, MapData, _uart, _dashboard, _previousValues, pc, hs, lastTx,
                 liveAtRefresh, nWrites, geoVars, mapCall>>

NextFormat ==
  \/ NEX_Bind("huart2", "dashboardValues")
  \/ \E a \in FormatArgs : Send_Nextion_Int_Call(a.cmdID, a.val)

SpecFormat == Init /\ [][NextFormat]_vars

(***************************************************************************)
(* Properties.                                                             *)
(***************************************************************************)
\* the step is a call of NEX_Refresh
RefreshStep == nCalls' = nCalls + 1 /\ call'.name = "NEX_Refresh"

\* the step is a pipeline run whose Read_GPS_Location returned ret
RunStep(ret) == geoCall'.name = "Run_GeoPipeline" /\ geoCall'.ret = ret

\* the commands of a transmit log produced for field f (number or bar)
FieldCmds(log, f) == {k \in 1..Len(log) : log[k].kind = "cmd" /\ log[k].tag.field = f}

\* position of a field in the refresh order
Pos(f) == CHOOSE k \in 1..Len(RefreshOrder) : RefreshOrder[k] = f

\* a value outside the progress-bar domain of its field
OutOfDomain(f, v) ==
  IF f = "batteryValue"
  THEN v < NEX_BATTERY_PROGRESS_BAR_MIN_VAL \/ v > NEX_BATTERY_PROGRESS_BAR_MAX_VAL
  ELSE v < NEX_KW_PROGRESS_BAR_MIN_VAL \/ v > NEX_KW_PROGRESS_BAR_MAX_VAL

\* the field whose range check fails in a refresh that starts with cache prev
\* and reads lv ("none": no check fails)
FailingField(prev, lv) ==
  IF lv["batteryValue"] # prev["batteryValue"] /\ OutOfDomain("batteryValue", lv["batteryValue"])
  THEN "batteryValue"
  ELSE IF lv["powerKW"] # prev["powerKW"] /\ OutOfDomain("powerKW", lv["powerKW"])
  THEN "powerKW"
  ELSE "none"

\* C1: during a refresh a command for a field is transmitted only if the
\* field's live value differs from the value carried by the last command
\* transmitted for that field (zero before any transmission).
C1_TransmitOnlyOnChange ==
  [][RefreshStep =>
       \A f \in Fields : FieldCmds(sent', f) # {} => LiveValues[f] # lastTx[f]]_vars

C3_PixelsInWindow ==
  /\ MapData.PixelX \in MAP_X_MIN_VAL..MAP_X_MAX_VAL
  /\ MapData.PixelY \in MAP_Y_MIN_VAL..MAP_Y_MAX_VAL

\* C3 witness: a run has decoded a position far north-west of the map and
\* both pixels sit on the upper edge of the window.
C3_Witness_FarOutside ==
  /\ geoCall.name = "Run_GeoPipeline"
  /\ geoCall.ret = HAL_OK
  /\ _gpsData.filtered_lat > NW_lat + 1000000
  /\ _gpsData.filtered_lon < NW_lon - 1000000
  /\ MapData.PixelX = MAP_X_MAX_VAL
  /\ MapData.PixelY = MAP_Y_MAX_VAL

\* C4: a pipeline run whose Read_GPS_Location fails leaves MapState, the
\* filter's last and filtered position, the raw position and speed, the
\* cached previous pixel, the reached flags and Is_Lap_Started unchanged.
C4_FailedReadNoEffect ==
  [][RunStep(HAL_ERROR) =>
       UNCHANGED <<MapData, _gpsData, _mapCachedData, Checkpoints, Is_Lap_Started>>]_vars

\* C4 witness: a run has failed after earlier runs had moved the position,
\* started a lap and marked a checkpoint.
C4_Witness_FailedRun ==
  /\ geoCall.name = "Run_GeoPipeline"
  /\ geoCall.ret = HAL_ERROR
  /\ _gpsData.raw_lat # 0
  /\ MapData.PixelX # 0
  /\ Is_Lap_Started = 1
  /\ \E k \in 1..NUM_CHECKPOINTS : Checkpoints[k].status = 1

\* C5: a refresh that finds a changed batteryValue outside the progress-bar
\* domain returns HAL_ERROR and transmits no command carrying that battery
\* value, neither the number command nor the bar command.
C5_OutOfDomainBatteryNotSent ==
  [][(/\ RefreshStep
      /\ LiveValues["batteryValue"] # _previousValues["batteryValue"]
      /\ OutOfDomain("batteryValue", LiveValues["batteryValue"]))
     => /\ call'.ret = HAL_ERROR
        /\ FieldCmds(sent', "batteryValue") = {}]_vars

\* C6: a refresh returns HAL_ERROR exactly when a range check fails; then no
\* command is transmitted for a field later in refresh order, and the cached
\* values of the failing field and of every later field are unchanged.
C6_ErrorStopsRefresh ==
  [][RefreshStep =>
       LET f == FailingField(_previousValues, LiveValues)
       IN  /\ (call'.ret = HAL_ERROR) <=> (f # "none")
           /\ f # "none" =>
                \A g \in Fields :
                  /\ Pos(g) > Pos(f) => FieldCmds(sent', g) = {}
                  /\ Pos(g) >= Pos(f) => _previousValues'[g] = _previousValues[g]]_vars

\* C6 witness: a refresh has returned HAL_ERROR while a field later in the
\* order had a new value, which is still waiting.
C6_Witness_ErrorWithPending ==
  /\ call.name = "NEX_Refresh"
  /\ call.ret = HAL_ERROR
  /\ \E g \in Fields : /\ Pos(g) > Pos("powerKW")
                       /\ liveAtRefresh[g] # _previousValues[g]

C8_HandshakeOutcome ==
  /\ rxCalls <= NEX_HANDSHAKE_ATTEMPTS
  /\ (pc = "handshake" => hs.i < NEX_HANDSHAKE_ATTEMPTS /\ rxCalls = hs.i /\ ~gotOK)
  /\ (pc = "idle" /\ rxCalls > 0 /\ call.ret = HAL_OK => gotOK)
  /\ (pc = "idle" /\ rxCalls > 0 /\ call.ret = HAL_ERROR =>
        rxCalls = NEX_HANDSHAKE_ATTEMPTS /\ ~gotOK)

\* C9: NEX_Bind and NEX_Init called with a NULL handle or a NULL data set
\* return HAL_ERROR, leave the stored handle and binding unchanged, and
\* neither receive nor transmit anything.
C9_NullBindRejected ==
  [][(/\ nCalls' = nCalls + 1
      /\ call'.name \in {"NEX_Bind", "NEX_Init"}
      /\ (call'.uart = NULL \/ call'.data = NULL))
     => /\ call'.ret = HAL_ERROR
        /\ UNCHANGED <<_uart, _dashboard>>
        /\ pc' = "idle"
        /\ sent' = <<>>
        /\ rxCalls' = 0]_vars

\* C9 witness: NEX_Init has been called with a NULL argument while a binding
\* was stored, and the binding is still there.
C9_Witness_NullInit ==
  /\ call.name = "NEX_Init"
  /\ call.uart = NULL
  /\ call.ret = HAL_ERROR
  /\ _uart = "huart2"
  /\ _dashboard = "dashboardValues"

\* C10: a refresh that reads the same live values as the refresh before it
\* transmits nothing.
C10_SecondRefreshSilent ==
  [][(RefreshStep /\ liveAtRefresh # <<>> /\ liveAtRefresh = LiveValues)
     => sent' = <<>>]_vars

\* the fields whose live value differs from the value the previous refresh read
ChangedSince(lv0, lv1) == {f \in Fields : lv0[f] # lv1[f]}

\* C11: when exactly one bound field has changed since a refresh that left
\* the cache equal to the live values, the next refresh (on a working UART)
\* transmits exactly one command followed by one terminator, whichever field
\* changed and whatever its new value.
C11_OneChangeOneCommand ==
  [][(/\ RefreshStep
      /\ liveAtRefresh # <<>>
      /\ _previousValues = liveAtRefresh
      /\ Cardinality(ChangedSince(liveAtRefresh, LiveValues)) = 1
      /\ txFailed' = 0)
     => /\ Len(sent') = 2
        /\ sent'[1].kind = "cmd"
        /\ sent'[2].kind = "end"]_vars

\* C12: NEX_Refresh returns HAL_OK only if every HAL_UART_Transmit call made
\* during the call succeeded; if one of them failed it returns HAL_ERROR.
C12_TransmitFailureReported ==
  [][RefreshStep =>
       /\ call'.ret = HAL_OK => txFailed' = 0
       /\ txFailed' > 0 => call'.ret = HAL_ERROR]_vars

\* C13: when the fixes decoded so far describe one full loop (within 5 m of
\* C1 and of C2, then back within 5 m of C0), Lap has increased by exactly
\* one since the start, and the pixel written by every run lies inside the
\* clamp window.
C13_OneLoopOneLap ==
  /\ loop.phase = "done" => MapData.Lap = 1
  /\ loop.phase \in {"start", "out"} => MapData.Lap = 0
  /\ MapData.PixelX \in MAP_X_MIN_VAL..MAP_X_MAX_VAL
  /\ MapData.PixelY \in MAP_Y_MIN_VAL..MAP_Y_MAX_VAL

\* the step is a call of Read_GPS_Location
ReadStep == geoCall'.name = "Read_GPS_Location"

\* the positions in the received text (up to its first NUL) where "$GNRMC" starts
Occurrences(buf) ==
  {q \in 1..(StrEnd(buf, 1) - Len(GNRMC)) : \A k \in 1..Len(GNRMC) : buf[q + k - 1] = GNRMC[k]}

\* the sentence that starts at q ends before the next CR, LF or NUL
SentenceEnd(buf, q) == MinOf({e \in q..(Len(buf) + 1) : At(buf, e) \in {NUL, "\r", "\n"}})

\* the commas of the sentence at q
Commas(buf, q) == {c \in q..(SentenceEnd(buf, q) - 1) : buf[c] = ","}

\* where field k of the sentence at q starts: behind its k-th comma (field 0
\* is the sentence name); 0 when the sentence has fewer than k commas
FieldStart(buf, q, k) ==
  LET cs == Commas(buf, q)
  IN  IF Cardinality(cs) < k THEN 0
      ELSE (CHOOSE c \in cs : Cardinality({d \in cs : d < c}) = k - 1) + 1

\* field k of the sentence at q is there and is not empty
FieldPresent(buf, q, k) ==
  LET s == FieldStart(buf, q, k)
  IN  s # 0 /\ s < SentenceEnd(buf, q) /\ buf[s] # ","

\* the fix-status field (field 2) of the sentence at q
StatusOf(buf, q) == IF FieldPresent(buf, q, 2) THEN buf[FieldStart(buf, q, 2)] ELSE NUL

\* latitude, hemisphere, longitude, hemisphere (fields 3..6) are all there
PositionComplete(buf, q) == \A k \in 3..6 : FieldPresent(buf, q, k)

\* a valid sentence: status 'A' and a complete position
ValidSentence(buf, q) == StatusOf(buf, q) = "A" /\ PositionComplete(buf, q)

\* the coordinate in field k of the sentence at q, signed by the hemisphere
\* letter in field k + 1
CoordinateOf(buf, q, k, negative) ==
  {IF buf[FieldStart(buf, q, k + 1)] = negative THEN -v ELSE v :
     v \in NMEA_To_Decimal(buf, FieldStart(buf, q, k))}

C15_IncompleteSentenceDiscarded ==
  [][(/\ ReadStep
      /\ \A q \in Occurrences(gps_buffer') : ~PositionComplete(gps_buffer', q))
     => /\ geoCall'.ret = HAL_ERROR
        /\ UNCHANGED _gpsData]_vars

\* C16: when the first "$GNRMC" occurrence is not a valid sentence and a
\* later one is, Read_GPS_Location returns HAL_OK with the position of the
\* first valid occurrence in buffer order.
C16_FirstValidOccurrenceUsed ==
  [][ReadStep =>
       LET buf   == gps_buffer'
           occ   == Occurrences(buf)
           valid == {q \in occ : ValidSentence(buf, q)}
       IN  (occ # {} /\ valid # {} /\ MinOf(occ) \notin valid)
             => /\ geoCall'.ret = HAL_OK
                /\ _gpsData'.raw_lat \in CoordinateOf(buf, MinOf(valid), 3, "S")
                /\ _gpsData'.raw_lon \in CoordinateOf(buf, MinOf(valid), 5, "W")]_vars

\* C17: whatever the receive buffer holds, Read_GPS_Location reads only
\* bytes inside gps_buffer, and it returns HAL_ERROR when the buffer holds
\* no "$GNRMC".
C17_ReadsInsideBuffer ==
  geoCall.name = "Read_GPS_Location"
    => /\ ~geoCall.oob
       /\ Occurrences(gps_buffer) = {} => geoCall.ret = HAL_ERROR

\* C18: GPS_Filter: when the incoming raw fix is less than 3 m from the last
\* accepted position, the filtered position is the last accepted position
\* and last_lat / last_lon keep their values; at 3 m or more the filtered
\* position and last_lat / last_lon all become the raw fix.
C18_FilterThreshold ==
  [][RunStep(HAL_OK) =>
       LET new  == _gpsData'
           dist == GPS_CalcDistance(new.raw_lat, new.raw_lon,
                                    _gpsData.last_lat, _gpsData.last_lon)
       IN  IF dist < FILTER_MIN_DIST
           THEN /\ new.filtered_lat = _gpsData.last_lat
                /\ new.filtered_lon = _gpsData.last_lon
                /\ new.last_lat = _gpsData.last_lat
                /\ new.last_lon = _gpsData.last_lon
           ELSE /\ new.filtered_lat = new.raw_lat
                /\ new.filtered_lon = new.raw_lon
                /\ new.last_lat = new.raw_lat
                /\ new.last_lon = new.raw_lon]_vars

\* C18 witness: a run has decoded a fix less than 3 m from the last accepted
\* position, and the filter has kept that position.
C18_Witness_JitterSuppressed ==
  /\ geoCall.name = "Run_GeoPipeline"
  /\ geoCall.ret = HAL_OK
  /\ _gpsData.raw_lat # _gpsData.last_lat
  /\ _gpsData.filtered_lat = _gpsData.last_lat
  /\ _gpsData.filtered_lon = _gpsData.last_lon
  /\ GPS_CalcDistance(_gpsData.raw_lat, _gpsData.raw_lon,
                      _gpsData.last_lat, _gpsData.last_lon) \in 1..(FILTER_MIN_DIST - 1)

\* C19: in every reachable state IconAngle is an integer in [0, 360).
C19_IconAngleInRange ==
  MapData.IconAngle \in 0..359

\* C19 witness: a run has turned the icon to a heading in the upper half of
\* the range.
C19_Witness_Turned ==
  /\ geoCall.name = "Run_GeoPipeline"
  /\ geoCall.ret = HAL_OK
  /\ MapData.IconAngle \in 181..359
  /\ _mapCachedData.PixelX = MapData.PixelX
  /\ _mapCachedData.PixelY = MapData.PixelY

\* C20: a run changes IconAngle and the cached previous pixel only when the
\* pixel it has computed differs from the cached previous pixel: a run whose
\* pixel equals the cached one leaves IconAngle and the cached pixel as
\* they were.
C20_HeadingOnlyOnMove ==
  [][RunStep(HAL_OK) =>
       ((MapData'.PixelX = _mapCachedData.PixelX /\ MapData'.PixelY = _mapCachedData.PixelY)
          => /\ MapData'.IconAngle = MapData.IconAngle
             /\ _mapCachedData' = _mapCachedData)]_vars

\* C20 witness: a run has computed the pixel of the run before it (its fix
\* was suppressed by the filter) and the heading found earlier is still shown.
C20_Witness_HeadingKept ==
  /\ geoCall.name = "Run_GeoPipeline"
  /\ geoCall.ret = HAL_OK
  /\ _gpsData.raw_lat # _gpsData.filtered_lat
  /\ MapData.IconAngle \notin {0, 180}
  /\ _mapCachedData.PixelX = MapData.PixelX
  /\ _mapCachedData.PixelY = MapData.PixelY

\* the pixel lies strictly inside the window the map offset is clamped to
Unsaturated(m) ==
  /\ m.PixelX > MAP_X_MIN_VAL /\ m.PixelX < MAP_X_MAX_VAL
  /\ m.PixelY > MAP_Y_MIN_VAL /\ m.PixelY < MAP_Y_MAX_VAL

\* a run that has moved the filtered position while the pixel before and the
\* pixel after are unsaturated and the cache holds the pixel before
AxisStep ==
  /\ RunStep(HAL_OK)
  /\ _mapCachedData.PixelX = MapData.PixelX
  /\ _mapCachedData.PixelY = MapData.PixelY
  /\ Calculate_Geo_To_Pixel(_gpsData) = [PixelX |-> MapData.PixelX, PixelY |-> MapData.PixelY]
  /\ Unsaturated(MapData)
  /\ Unsaturated(MapData')

\* C21: when the filtered position moves along one axis and the pixel stays
\* unsaturated, the heading is 0 for a move to the west, 90 for a move to
\* the south, 180 for a move to the east and 270 for a move to the north.
C21_HeadingConvention ==
  [][AxisStep =>
       LET dlat == _gpsData'.filtered_lat - _gpsData.filtered_lat
           dlon == _gpsData'.filtered_lon - _gpsData.filtered_lon
       IN  /\ (dlat = 0 /\ dlon < 0) => MapData'.IconAngle = 0
           /\ (dlon = 0 /\ dlat < 0) => MapData'.IconAngle = 90
           /\ (dlat = 0 /\ dlon > 0) => MapData'.IconAngle = 180
           /\ (dlon = 0 /\ dlat > 0) => MapData'.IconAngle = 270]_vars

C24_MapIntEndpointsMonotone ==
  (mapCall.fn = "Map_Int" /\ mapCall.in_min < mapCall.in_max)
    => /\ mapCall.outcome = "value"
       /\ mapCall.input = mapCall.in_min => mapCall.ret = mapCall.out_min
       /\ mapCall.input = mapCall.in_max => mapCall.ret = mapCall.out_max
       /\ mapCall.out_min <= mapCall.out_max
            => \A x \in MapInputs :
                 /\ x <= mapCall.input
                      => Map_Int(x, mapCall.in_min, mapCall.in_max, mapCall.out_min,
                                 mapCall.out_max) <= mapCall.ret
                 /\ x >= mapCall.input
                      => Map_Int(x, mapCall.in_min, mapCall.in_max, mapCall.out_min,
                                 mapCall.out_max) >= mapCall.ret

\* C24 witness: Map_Int has returned a truncated quotient for an input
\* strictly between the limits.
C24_Witness_Truncated ==
  /\ mapCall.fn = "Map_Int"
  /\ mapCall.in_min < mapCall.input /\ mapCall.input < mapCall.in_max
  /\ mapCall.out_min < mapCall.ret /\ mapCall.ret < mapCall.out_max
  /\ ((mapCall.input - mapCall.in_min) * (mapCall.out_max - mapCall.out_min))
       % (mapCall.in_max - mapCall.in_min) # 0

\* C25: a Range Mapper call with in_min = in_max is guarded: its outcome is
\* an explicit error and no division by zero is executed.
C25_EqualLimitsGuarded ==
  (mapCall.fn # "none" /\ mapCall.in_min = mapCall.in_max
     /\ (mapCall.fn = "Send_Nextion_Progress_Bar" => mapCall.input = mapCall.in_min))
    => mapCall.outcome = "error" /\ ~mapCall.div0

\* C26: Run_GeoPipeline returns a result to its caller that is failure
\* exactly when no fix was decoded in the invocation and success exactly
\* when the filter, mapper, heading and lap stages were executed.
C26_PipelineReturnsResult ==
  geoCall.name = "Run_GeoPipeline"
    => /\ geoCall.returned \in {HAL_OK, HAL_ERROR}
       /\ geoCall.returned = HAL_ERROR <=> geoCall.ret = HAL_ERROR
       /\ geoCall.returned = HAL_OK <=> geoCall.ret = HAL_OK

\* the number written with the n digits at positions s .. s + n - 1
RECURSIVE NumberAt(_, _, _)
NumberAt(buf, s, n) ==
  IF n = 0 THEN 0 ELSE NumberAt(buf, s, n - 1) * 10 + DigitVal(buf[s + n - 1])

\* where the field that starts at s ends (the position of its comma)
FieldEnd(buf, s) == MinOf({e \in s..(Len(buf) + 1) : At(buf, e) \in {",", NUL, "\r", "\n"}})

\* the field at s is written as digits, one decimal point, digits, with at
\* least two digits before the point and one to four behind it
IsDegMin(buf, s) ==
  LET e    == FieldEnd(buf, s)
      dots == {k \in s..(e - 1) : buf[k] = "."}
  IN  /\ Cardinality(dots) = 1
      /\ \A k \in s..(e - 1) : buf[k] \in Digits \/ k \in dots
      /\ \A k \in dots : k - s >= 2 /\ e - k \in 2..5

\* whole degrees + minutes / 60 of the ddmm.mmmm or dddmm.mmmm field at s, in
\* micro-degrees: three degree digits when more than four characters
\* precede the point, two otherwise
DegMinValue(buf, s) ==
  LET e       == FieldEnd(buf, s)
      dot     == CHOOSE k \in s..(e - 1) : buf[k] = "."
      d       == IF dot - s > 4 THEN 3 ELSE 2
      whole   == NumberAt(buf, s + d, dot - s - d)
      decimal == NumberAt(buf, dot + 1, e - dot - 1)
      scale   == CASE e - dot - 1 = 1 -> 1000 [] e - dot - 1 = 2 -> 100
                   [] e - dot - 1 = 3 -> 10 [] OTHER -> 1
      tenthousandths == whole * 10000 + decimal * scale
  IN  NumberAt(buf, s, d) * 1000000 + (tenthousandths * 100) \div 60

\* C27: a ddmm.mmmm / dddmm.mmmm field is converted to whole degrees plus
\* minutes / 60, the first three characters being the degrees when more than
\* four characters precede the point and the first two otherwise, and the
\* result is negated for hemisphere 'S' or 'W'; "4807.038",N gives
\* 48 + 7.038/60 and "01131.000",E gives 11 + 31/60 (in micro-degrees).
C27_DegreesPlusMinutes ==
  [][ReadStep =>
       LET buf == gps_buffer'
           occ == Occurrences(buf)
           q   == MinOf(occ)
           lat == FieldStart(buf, q, 3)
           lon == FieldStart(buf, q, 5)
       IN  /\ (/\ occ # {}
               /\ ValidSentence(buf, q)
               /\ FieldPresent(buf, q, 1)
               /\ IsDegMin(buf, lat)
               /\ IsDegMin(buf, lon))
             => /\ geoCall'.ret = HAL_OK
                /\ _gpsData'.raw_lat = (IF buf[FieldStart(buf, q, 4)] = "S" THEN -1 ELSE 1)
                                          * DegMinValue(buf, lat)
                /\ _gpsData'.raw_lon = (IF buf[FieldStart(buf, q, 6)] = "W" THEN -1 ELSE 1)
                                          * DegMinValue(buf, lon)
           /\ buf = FillBuffer(BufOutside)
             => _gpsData'.raw_lat = 48117300 /\ _gpsData'.raw_lon = 11516666]_vars

\* C27 witness: a fix of the southern and western hemisphere with a
\* three-digit longitude has been decoded to two negative coordinates.
C27_Witness_SouthWest ==
  /\ geoCall.name = "Read_GPS_Location"
  /\ geoCall.ret = HAL_OK
  /\ Occurrences(gps_buffer) # {}
  /\ LET q == MinOf(Occurrences(gps_buffer))
     IN  /\ ValidSentence(gps_buffer, q)
         /\ IsDegMin(gps_buffer, FieldStart(gps_buffer, q, 3))
         /\ IsDegMin(gps_buffer, FieldStart(gps_buffer, q, 5))
         /\ gps_buffer[FieldStart(gps_buffer, q, 4)] = "S"
         /\ gps_buffer[FieldStart(gps_buffer, q, 6)] = "W"
         /\ _gpsData.raw_lat = -DegMinValue(gps_buffer, FieldStart(gps_buffer, q, 3))
         /\ _gpsData.raw_lon = -DegMinValue(gps_buffer, FieldStart(gps_buffer, q, 5))
  /\ _gpsData.raw_lat < 0
  /\ _gpsData.raw_lon < 0

\* C28: for minVal < maxVal and val in [minVal, maxVal],
\* Send_Nextion_Progress_Bar transmits Map_Int(val, minVal, maxVal, 0, 100)
\* for a gauge that is not reversed and 100 minus that number for a reversed
\* one; the number is in [0, 100], minVal gives 0 (reversed: 100) and maxVal
\* gives 100 (reversed: 0).
C28_ProgressBarNumber ==
  (/\ mapCall.fn = "Send_Nextion_Progress_Bar"
   /\ mapCall.in_min < mapCall.in_max
   /\ mapCall.in_min <= mapCall.input /\ mapCall.input <= mapCall.in_max)
    => LET m   == Map_Int(mapCall.input, mapCall.in_min, mapCall.in_max, 0, 100)
           rev == mapCall.reverse = PROGRESS_BAR_REVERSE
       IN  /\ mapCall.outcome = "value"
           /\ mapCall.ret = (IF rev THEN 100 - m ELSE m)
           /\ mapCall.ret \in 0..100
           /\ mapCall.input = mapCall.in_min => mapCall.ret = (IF rev THEN 100 ELSE 0)
           /\ mapCall.input = mapCall.in_max => mapCall.ret = (IF rev THEN 0 ELSE 100)

\* C28 witness: a reversed gauge has been sent for a value strictly between
\* its limits.
C28_Witness_ReversedInterior ==
  /\ mapCall.fn = "Send_Nextion_Progress_Bar"
  /\ mapCall.reverse = PROGRESS_BAR_REVERSE
  /\ mapCall.in_min < mapCall.input /\ mapCall.input < mapCall.in_max
  /\ mapCall.outcome = "value"
  /\ mapCall.ret \in 51..99

\* C29: in every attempt of NEX_Handshake the command "con=1" and its
\* terminator are transmitted before the response of that attempt is
\* awaited: when the k-th receive begins, k commands have been sent.
C29_CommandBeforeReceive ==
  call.name \in {"NEX_Handshake", "NEX_Init"}
    => \A k \in 1..Len(txAtRx) :
         /\ txAtRx[k] >= 2 * k
         /\ sent[2 * k - 1].text = NEX_Command["CONNECTION_OK"]
         /\ sent[2 * k] = TxEnd

\* the checkpoints within 5 m of the filtered position
Within5m(cps, gps) ==
  {index \in 1..NUM_CHECKPOINTS :
     GPS_CalcDistance(cps[index].lat, cps[index].lon, gps.filtered_lat, gps.filtered_lon)
       < CHECKPOINT_DIST}

\* C30: a Count_Lap run acts on the lowest-index checkpoint within 5 m of the
\* filtered position only: no checkpoint of a higher index is marked in that
\* run even if it is within 5 m too, and with no checkpoint within 5 m the
\* lap state is unchanged.
C30_LowestIndexOnly ==
  [][RunStep(HAL_OK) =>
       LET near == Within5m(Checkpoints, _gpsData')
       IN  IF near = {}
           THEN /\ UNCHANGED <<Checkpoints, Is_Lap_Started>>
                /\ MapData'.Lap = MapData.Lap
           ELSE LET low == MinOf(near)
                IN  /\ \A index \in 1..NUM_CHECKPOINTS :
                         (index # low /\ Checkpoints'[index].status = 1)
                           => Checkpoints[index].status = 1
                    /\ low # 1 => Checkpoints'[low].status = 1 /\ Is_Lap_Started' = 1
                    /\ (low = 1 /\ Is_Lap_Started = 0)
                         => UNCHANGED <<Checkpoints, Is_Lap_Started>>]_vars

\* C30 witness: a run has found all three checkpoints within 5 m of the
\* filtered position and has marked none of them.
C30_Witness_AllNear ==
  /\ geoCall.name = "Run_GeoPipeline"
  /\ geoCall.ret = HAL_OK
  /\ Within5m(Checkpoints, _gpsData) = 1..NUM_CHECKPOINTS
  /\ \A index \in 1..NUM_CHECKPOINTS : Checkpoints[index].status = 0
  /\ Is_Lap_Started = 0

\* the larger and the smaller of two integers
Larger(a, b) == IF a >= b THEN a ELSE b

Smaller(a, b) == IF a <= b THEN a ELSE b

\* C31: Get_Map_Draw_Position writes PixelX = clamp(ICON_X + ICON_WIDTH/2 -
\* gpsPixelX, MAP_X_MIN_VAL, MAP_X_MAX_VAL) and PixelY likewise with the Y
\* constants, the half size by integer division: a value outside the window
\* becomes the nearer edge, and each axis is clamped on its own.
C31_DrawPositionClamped ==
  mapCall.fn = "Get_Map_Draw_Position"
    => LET x == ICON_X + 33 - mapCall.gpsPixelX
           y == ICON_Y + 33 - mapCall.gpsPixelY
       IN  /\ MapData.PixelX = Larger(MAP_X_MIN_VAL, Smaller(x, MAP_X_MAX_VAL))
           /\ MapData.PixelY = Larger(MAP_Y_MIN_VAL, Smaller(y, MAP_Y_MAX_VAL))
           /\ x > MAP_X_MAX_VAL => MapData.PixelX = MAP_X_MAX_VAL
           /\ x < MAP_X_MIN_VAL => MapData.PixelX = MAP_X_MIN_VAL
           /\ y > MAP_Y_MAX_VAL => MapData.PixelY = MAP_Y_MAX_VAL
           /\ y < MAP_Y_MIN_VAL => MapData.PixelY = MAP_Y_MIN_VAL

\* C31 witness: a raw pixel far to the left of the window in X and inside it
\* in Y has been written: X is at the upper edge, Y is not clamped.
C31_Witness_OneAxisSaturated ==
  /\ mapCall.fn = "Get_Map_Draw_Position"
  /\ mapCall.gpsPixelX < 0
  /\ MapData.PixelX = MAP_X_MAX_VAL
  /\ MapData.PixelY = ICON_Y + 33 - mapCall.gpsPixelY
  /\ MapData.PixelY \in (MAP_Y_MIN_VAL + 1)..(MAP_Y_MAX_VAL - 1)

\* the on/off fields and the prefix of their commands
TogglePrefix ==
  [handbrake |-> "pHb", signalLeft |-> "pSL", signalRight |-> "pSR", connWarn |-> "pCW",
   battWarn |-> "pBW", lights |-> "pLt"]

\* the literal command of a discrete field for the value v
LiteralFor(f, v) ==
  IF f = "gear"
  THEN CASE v = 0 -> "pGr.pic=14" [] v = 1 -> "pGr.pic=13" [] OTHER -> "pGr.pic=15"
  ELSE TogglePrefix[f] \o (IF v # 0 THEN ".aph=127" ELSE ".aph=0")

\* C32: a refresh that reaches the discrete fields transmits, for each one
\* that has changed, exactly the literal command of its new value: gear 0, 1,
\* 2 send "pGr.pic=14", "pGr.pic=13", "pGr.pic=15"; the on/off fields send
\* "<prefix>.aph=127" for a non-zero value and "<prefix>.aph=0" for zero.
C32_DiscreteLiterals ==
  [][(RefreshStep /\ call'.ret = HAL_OK /\ txFailed' = 0) =>
       \A f \in DOMAIN TogglePrefix \cup {"gear"} :
         LET v    == LiveValues[f]
             cmds == FieldCmds(sent', f)
         IN  IF v # _previousValues[f] /\ (f = "gear" => v \in 0..2)
             THEN /\ Cardinality(cmds) = 1
                  /\ \A k \in cmds : sent'[k].text = LiteralFor(f, v)
             ELSE cmds = {}]_vars

\* C32 witness: one refresh has sent the command of gear Drive and the "on"
\* command of the handbrake for a live value other than 0 and 1.
C32_Witness_DriveAndBrake ==
  /\ call.name = "NEX_Refresh"
  /\ call.ret = HAL_OK
  /\ liveAtRefresh # <<>>
  /\ liveAtRefresh["gear"] = 1
  /\ liveAtRefresh["handbrake"] = 2
  /\ \E j \in 1..Len(sent), k \in 1..Len(sent) :
       /\ sent[j].text = "pGr.pic=13"
       /\ sent[k].text = "pHb.aph=127"

\* C33: when NEX_Refresh returns HAL_OK, every value of _previousValues
\* equals the live value the call has read; a refresh that follows it at
\* once with the live values unchanged returns HAL_OK and transmits nothing.
C33_CacheEqualsLiveAfterOk ==
  [][RefreshStep =>
       /\ call'.ret = HAL_OK => \A f \in Fields : _previousValues'[f] = LiveValues[f]
       /\ (call.name = "NEX_Refresh" /\ call.ret = HAL_OK /\ liveAtRefresh = LiveValues)
            => call'.ret = HAL_OK /\ sent' = <<>> /\ txFailed' = 0]_vars

\* C33 witness: a refresh has returned HAL_OK without transmitting anything
\* while the cache holds non-zero live values that an earlier refresh sent,
\* among them a gear value that has no command.
C33_Witness_SilentAfterOk ==
  /\ call.name = "NEX_Refresh"
  /\ call.ret = HAL_OK
  /\ sent = <<>>
  /\ txFailed = 0
  /\ nCalls >= 2
  /\ _previousValues = liveAtRefresh
  /\ liveAtRefresh["gear"] = 3
  /\ \E f \in Fields : lastTx[f] # 0 /\ lastTx[f] = liveAtRefresh[f]

CompiledTable ==
  \A index \in 1..NUM_CHECKPOINTS :
    /\ Checkpoints[index].lat = CompiledCheckpoints[index].lat
    /\ Checkpoints[index].lon = CompiledCheckpoints[index].lon

\* C35: with the checkpoint table compiled into geo_to_pixel.c, in every
\* reachable state Is_Lap_Started is 0, all reached flags are 0 and Lap has
\* its initial value.
C35_CompiledTableNeverCounts ==
  CompiledTable
    => /\ Is_Lap_Started = 0
       /\ \A index \in 1..NUM_CHECKPOINTS : Checkpoints[index].status = 0
       /\ MapData.Lap = 0

\* C35 witness: with the compiled table, a run has decoded a fix on the
\* point of the table after the position had been elsewhere, and nothing is
\* marked.
C35_Witness_OnTablePoint ==
  /\ CompiledTable
  /\ geoCall.name = "Run_GeoPipeline"
  /\ geoCall.ret = HAL_OK
  /\ _gpsData.filtered_lat = CompiledCheckpoints[1].lat
  /\ _gpsData.filtered_lon = CompiledCheckpoints[1].lon
  /\ MapData.IconAngle # 0
  /\ Is_Lap_Started = 0
  /\ MapData.Lap = 0

C37_OnlyFreshOK ==
  [][\A n \in 0..2, d0 \in RxBytes, d1 \in RxBytes :
       (NEX_Handshake_Attempt(n, d0, d1) /\ call'.ret = HAL_OK)
         => (n = 2 /\ d0 = "O" /\ d1 = "K")]_vars

\* C38: in every state, and so after every GPS_Filter call in the reject and
\* in the accept branch, filtered_lat = last_lat and filtered_lon = last_lon:
\* the position handed to the pixel mapper and the lap tracker is the last
\* accepted fix.
C38_FilteredIsLastAccepted ==
  /\ _gpsData.filtered_lat = _gpsData.last_lat
  /\ _gpsData.filtered_lon = _gpsData.last_lon

\* C38 witness: a run has rejected a raw fix that differs from the last
\* accepted one by less than 3 m, after an earlier fix had been accepted, and
\* the filtered position is that accepted fix, not the raw one.
C38_Witness_RejectAfterAccept ==
  /\ geoCall.name = "Run_GeoPipeline"
  /\ geoCall.ret = HAL_OK
  /\ _gpsData.last_lat # 0
  /\ <<_gpsData.raw_lat, _gpsData.raw_lon>> # <<_gpsData.last_lat, _gpsData.last_lon>>
  /\ <<_gpsData.filtered_lat, _gpsData.filtered_lon>>
       = <<_gpsData.last_lat, _gpsData.last_lon>>
  /\ GPS_CalcDistance(_gpsData.raw_lat, _gpsData.raw_lon,
                      _gpsData.last_lat, _gpsData.last_lon) < FILTER_MIN_DIST

\* C39: the first refresh after start-up, which finds the cache all zero,
\* transmits (on a UART that accepts the data) a command for exactly those
\* fields whose live value is not 0: none for a field that is 0, one at
\* least for every field that is not.
C39_FirstRefreshSendsNonZero ==
  [][(/\ RefreshStep
      /\ liveAtRefresh = <<>>
      /\ _previousValues = ZeroFields
      /\ txFailed' = 0)
     => \A f \in Fields : (FieldCmds(sent', f) # {}) <=> (LiveValues[f] # 0)]_vars

\* C40: whatever numeric template and whatever value NEX_Refresh passes to
\* Send_Nextion_Int, the formatted command with its terminating NUL needs at
\* most the 20 bytes of the local array command, so the call returns
\* normally.
C40_CommandFitsBuffer ==
  call.name = "Send_Nextion_Int"
    => /\ call.ret = "void"
       /\ \A k \in 1..Len(sent) :
            sent[k].kind = "cmd" => SprintfBytes(sent[k].text) <= CommandSize

TypeOK ==
  /\ pc \in {"idle", "handshake"}
  /\ nCalls \in 0..MaxCalls
  /\ nWrites \in 0..MaxWrites
  /\ Is_Lap_Started \in {0, 1}

====
